---- MODULE Spec2Model ----
(***************************************************************************)
(* Frame scheduler and swapchain recreation of the Vulkan renderer.        *)
(*                                                                         *)
(* The CPU side is App::render (src/src/app.rs) driven by the winit event  *)
(* loop of main (src/src/main.rs); the GPU side is the graphics queue,     *)
(* which completes submissions in submission order and signals their       *)
(* fences.  Every Vec of per-image handles is modelled by its length,      *)
(* except images_in_flight (a sequence of fence handles) and               *)
(* secondary_command_buffers (a sequence of list lengths).  Vec index i of *)
(* the source is sequence index i + 1 here.                                *)
(*                                                                         *)
(* The functions App::create calls before the App exists have their own    *)
(* specifications over their own variables: SpecMemType                    *)
(* (get_memory_type_index), SpecFormat (get_swapchain_surface_format),     *)
(* SpecExtent (get_swapchain_extent) and SpecTransfer (the one-shot        *)
(* command buffers of copy_buffer and transition_image_layout).            *)
(* So have SpecSwapchain (the image count and the present mode of          *)
(* create_swapchain), SpecShader (create_shader_module) and SpecPick        *)
(* (pick_physical_device).  Two aspects of the running App are followed     *)
(* apart from the frame scheduler, whose variables they leave unset:        *)
(* SpecLifetime (the Vulkan handles from App::create to App::destroy, each  *)
(* handle with its identity) and SpecPlacement (the model matrix of         *)
(* update_secondary_command_buffer).                                        *)
(***************************************************************************)
EXTENDS Integers, Sequences, FiniteSets, TLC

VARIABLES
    \* ---- App (app.rs:39-48) and the locals of main (main.rs:78-79)
    frame,                      \* App::frame, the frame slot
    resized,                    \* App::resized
    models,                     \* App::models, the model count
    \* ---- AppData: lengths of the per-image collections
    swapchain_images,
    swapchain_image_views,
    framebuffers,
    uniform_buffers,
    uniform_buffers_memory,
    descriptor_sets,
    command_pools,
    command_buffers,
    secondary_command_buffers,  \* sequence: length of each image's list
    images_in_flight,           \* sequence of fence handles (NullFence = none)
    \* ---- device state
    fence_signaled,             \* fence handle -> signalled?
    pending,                    \* queue submissions not yet complete, oldest first
    \* ---- position of the CPU thread inside render
    pc,
    image_index,                \* render's local image_index
    after,                      \* which call site recreate_swapchain returns to
    ret,                        \* what render returned
    wait_semaphores,            \* render's local wait_semaphores (app.rs:222)
    signal_semaphores,          \* render's local signal_semaphores (app.rs:229)
    presentation_info,          \* render's local presentation_info (app.rs:247-250)
    \* ---- history variables (read by the properties only)
    trace,                      \* API calls of the current render call, in order
    unobserved,                 \* submissions whose completion the CPU has not observed
    frame_at_entry,             \* App::frame when the current render call started
    recreations,                \* completed recreate_swapchain calls
    recorded,                   \* images recorded since create_command_buffers last ran
    \* ---- get_memory_type_index (main.rs:1235-1250): its inputs and its result
    memory,                     \* vk::PhysicalDeviceMemoryProperties of the device
    properties,                 \* requested vk::MemoryPropertyFlags
    requirements,               \* vk::MemoryRequirements of the resource
    memory_type_index,          \* the Result<u32> returned
    \* ---- get_swapchain_surface_format (swpachain.rs:130-141)
    formats,                    \* the surface's vk::SurfaceFormatKHR list
    surface_format,             \* the entry returned
    \* ---- get_swapchain_extent (swpachain.rs:153-175)
    capabilities,               \* vk::SurfaceCapabilitiesKHR of the surface
    size,                       \* window.inner_size()
    extent,                     \* the vk::Extent2D returned
    \* ---- one-shot transfers (commandbuffer.rs:7-43) and their callers
    operation,                  \* the caller and its arguments
    command_buffer,             \* lifecycle state of the transient command buffer
    graphics_queue,             \* submitted to data.graphics_queue, not yet executed
    device_calls,               \* device calls of the current operation that returned Ok
    transfer_pc,                \* position of the CPU thread inside the operation
    transfer_result,            \* what the operation returned
    transfers,                  \* operations that returned Ok
    executed,                    \* one-shot command buffers the GPU has executed
    \* ---- create_swapchain (swpachain.rs:46-112): image count and present mode
    support,                    \* SwapchainSupport: capabilities and presentation_modes of the surface
    image_count,                \* create_swapchain's local image_count
    presentation_mode,           \* the vk::PresentModeKHR returned
    \* ---- App::create, recreate_swapchain, App::destroy (handles)
    lifecycle,                  \* "none", "running", "panicked" or "destroyed"
    live,                       \* the Vulkan handles created and not destroyed
    released,                   \* the handles destroyed
    faults,                     \* the handles destroyed while not live
    data,                       \* AppData: the handles the application holds
    calls,                       \* the destroy calls of the last destroy_swapchain
    referenced,                  \* the handles the commands now submitted refer to
    \* ---- update_secondary_command_buffer (model matrix)
    placement,                  \* the model matrix last computed, with its inputs
    earlier,                     \* the one computed before it
    \* ---- create_shader_module
    bytecode,                   \* create_shader_module: the bytes it is given
    allocation,                 \* the address of its copy, modulo 4, and the device result
    shader_module,              \* what it returned
    shader_modules,              \* the modules the device created
    \* ---- pick_physical_device
    physical_devices,           \* pick_physical_device: the devices the instance enumerates
    physical_device,             \* what it returned: the index of the device selected, or an error
    \* ---- update_command_buffer (the commands recorded)
    secondary_buffers,          \* update_command_buffer: the secondary command buffers of each image
    allocations,                \* how many secondary command buffers were allocated so far
    device_commands,            \* the device calls of the last update_command_buffer, in order
    recording,                   \* its arguments and its result
    \* ---- create_vertex_buffer, create_index_buffer, create_texture_image
    uploader,                   \* the upload function running: vertex, index or texture
    upload_pc,                  \* position of the CPU thread inside it
    device_objects,             \* the buffers, images and memory created and not destroyed
    uploads,                    \* upload functions called so far
    last_create,                 \* the last create_buffer call: the live objects before it and its result
    \* ---- the handlers of the event loop (main.rs:88-119)
    destroying,                 \* main's local `destroying`
    control_flow,               \* the ControlFlow the event loop holds
    app_calls,                  \* what the handlers did with the App, in order
    handled,                    \* events handled so far
    loop                        \* "running", "exited" or "panicked"

renderer == <<frame, resized, models,
          swapchain_images, swapchain_image_views, framebuffers, uniform_buffers,
          uniform_buffers_memory, descriptor_sets, command_pools, command_buffers,
          secondary_command_buffers, images_in_flight,
          fence_signaled, pending, pc, image_index, after, ret,
          wait_semaphores, signal_semaphores, presentation_info,
          trace, unobserved, frame_at_entry, recreations, recorded>>

memtype_vars == <<memory, properties, requirements, memory_type_index>>

\* the state of the functions that run during App::create
format_vars == <<formats, surface_format>>

extent_vars == <<capabilities, size, extent>>

transfer_vars == <<operation, command_buffer, graphics_queue, device_calls,
                   transfer_pc, transfer_result, transfers, executed>>

\* the state of the further functions, one tuple per function
swapchain_vars == <<support, image_count, presentation_mode>>

lifetime_vars == <<lifecycle, live, released, faults, data, calls, referenced>>

placement_vars == <<placement, earlier>>

shader_vars == <<bytecode, allocation, shader_module, shader_modules>>

pick_vars == <<physical_devices, physical_device>>

record_vars == <<secondary_buffers, allocations, device_commands, recording>>

upload_vars == <<uploader, upload_pc, device_objects, uploads, last_create>>

shutdown_vars == <<destroying, control_flow, app_calls, handled, loop>>

create_vars == <<swapchain_vars, lifetime_vars, placement_vars, shader_vars, pick_vars, record_vars, upload_vars, shutdown_vars>>

startup == <<memtype_vars, format_vars, extent_vars, transfer_vars, create_vars>>

vars == <<renderer, startup>>

\* the locals of render that describe the submission and the present request
locals == <<wait_semaphores, signal_semaphores, presentation_info>>

appData == <<swapchain_images, swapchain_image_views, framebuffers, uniform_buffers,
             uniform_buffers_memory, descriptor_sets, command_pools, command_buffers>>

-----------------------------------------------------------------------------
(* Program constants *)

MAX_FRAMES_IN_FLIGHT == 2

NullFence == 0

MaxModels == 4

(* Bounds of the model *)

\* largest image count a swapchain is created with
MaxImages == 2

\* recreate_swapchain calls explored in one run
MaxRecreations == 2

-----------------------------------------------------------------------------
(* Helpers *)

\* create_sync_objects: one fence per frame slot, created once
in_flight_fences == [f \in 1..MAX_FRAMES_IN_FLIGHT |-> f]

InFlightFence(f) == in_flight_fences[f + 1]

Fences == {in_flight_fences[f] : f \in 1..MAX_FRAMES_IN_FLIGHT}

\* create_sync_objects: two semaphores per frame slot, created once
image_available_semaphores ==
    [f \in 1..MAX_FRAMES_IN_FLIGHT |-> <<"image_available", f>>]

render_finished_semaphores ==
    [f \in 1..MAX_FRAMES_IN_FLIGHT |-> <<"render_finished", f>>]

\* faulty variant: every frame signals the semaphore of slot 0
SignalSemaphores_SlotZero(f) == <<render_finished_semaphores[1]>>

\* app.rs:222
WaitSemaphores(f) == <<image_available_semaphores[f + 1]>>

\* app.rs:229
SignalSemaphores(f) == <<render_finished_semaphores[f + 1]>>

\* a render local that has no value yet
NoValue == <<>>

NoPresentation == [wait_semaphores |-> NoValue, image_indices |-> NoValue]

\* vec![x; n]
Repeat(x, n) == [k \in 1..n |-> x]

\* Vec::resize(n, x): truncates, or appends copies of x; kept entries keep their value
Resize(v, n, x) ==
    IF n <= Len(v) THEN SubSeq(v, 1, n) ELSE v \o Repeat(x, n - Len(v))

\* faulty variant: the wait returns at once, whatever the fence's state
FenceWaitReturns_NoBlock(fence) == TRUE

\* faulty variant: device_wait_idle returns while submissions are pending
DeviceIdle_NoWait == TRUE

\* wait_for_fences(&[fence], true, u64::MAX) returns once the fence is signalled
FenceWaitReturns(fence) == fence_signaled[fence]

\* device_wait_idle returns once every submission has completed
DeviceIdle == pending = <<>>

\* the CPU saw `fence` signalled: every submission that signals it is complete
Observe(fence) == {s \in unobserved : s.fence # fence}

\* faulty variant: the images-in-flight table is never consulted
NeedsImageWait_Never(i) == FALSE

\* app.rs:208
NeedsImageWait(i) == images_in_flight[i + 1] # NullFence

\* faulty variant: only SUBOPTIMAL_KHR counts as a change of the swapchain
Changed_OnlySuboptimal(result) == result = "SUBOPTIMAL_KHR"

\* faulty variant: only ERROR_OUT_OF_DATE_KHR counts as a change of the swapchain
Changed_OnlyOutOfDate(result) == result = "ERROR_OUT_OF_DATE_KHR"

\* app.rs:255-256
Changed(result) == result \in {"SUBOPTIMAL_KHR", "ERROR_OUT_OF_DATE_KHR"}

IsErr(result) == result \in {"ERROR_OUT_OF_DATE_KHR", "ERROR_SURFACE_LOST_KHR"}

\* app.rs:258
MustRecreate(result) == resized \/ Changed(result)

\* faulty variant: the fences are created unsignalled
CreatedSignaled_Unsignaled == FALSE

\* create_sync_objects creates each fence with FenceCreateFlags::SIGNALED:
\* main.rs:1507-1530
CreatedSignaled == TRUE

\* faulty variant: the App starts with no model
InitialModels_None == 1 - 1

\* App::create, `models: 1`: app.rs:180
InitialModels == 1

\* faulty variant: the frame slot is never advanced
NextFrame_Stay(f) == f

\* app.rs:264
NextFrame(f) == (f + 1) % MAX_FRAMES_IN_FLIGHT

\* faulty variant: no secondary command buffer is ever allocated
UpdateSecondary_NoAllocate(scb, image, model) == Resize(scb, image + 1, 0)

\* update_secondary_command_buffer(image, model): app.rs:369-381
UpdateSecondary(scb, image, model) ==
    LET r == Resize(scb, image + 1, 0)
    IN  [r EXCEPT ![image + 1] = IF model >= @ THEN model + 1 ELSE @]

\* (0..self.models).map(|i| update_secondary_command_buffer(image, i)): app.rs:353-355
RECURSIVE UpdateSecondaries(_, _, _)
UpdateSecondaries(scb, image, n) ==
    IF n = 0 THEN scb
    ELSE UpdateSecondary(UpdateSecondaries(scb, image, n - 1), image, n - 1)

-----------------------------------------------------------------------------
(* Initial state: App::create has returned *)

\* no call of get_memory_type_index is under way
MemTypeIdle ==
    /\ memory = NoValue
    /\ properties = NoValue
    /\ requirements = NoValue
    /\ memory_type_index = NoValue

\* no call of get_swapchain_surface_format is under way
FormatIdle ==
    /\ formats = NoValue
    /\ surface_format = NoValue

\* no call of get_swapchain_extent is under way
ExtentIdle ==
    /\ capabilities = NoValue
    /\ size = NoValue
    /\ extent = NoValue

\* no one-shot transfer is under way
TransferIdle ==
    /\ operation = NoValue
    /\ command_buffer = "none"
    /\ graphics_queue = <<>>
    /\ device_calls = <<>>
    /\ transfer_pc = "idle"
    /\ transfer_result = NoValue
    /\ transfers = 0
    /\ executed = 0

\* no present mode chosen yet
NoMode == "none"

\* create_swapchain is not under way
SwapchainIdle ==
    /\ support = NoValue
    /\ image_count = NoValue
    /\ presentation_mode = NoMode

\* App::create has not been called
LifetimeIdle ==
    /\ lifecycle = "none"
    /\ live = {}
    /\ released = {}
    /\ faults = {}
    /\ data = NoValue
    /\ calls = <<>>
    /\ referenced = {}

\* update_secondary_command_buffer has not run
PlacementIdle ==
    /\ placement = NoValue
    /\ earlier = NoValue

\* no call of create_shader_module is under way
ShaderIdle ==
    /\ bytecode = NoValue
    /\ allocation = NoValue
    /\ shader_module = NoValue
    /\ shader_modules = {}

\* pick_physical_device has not been called
PickIdle ==
    /\ physical_devices = NoValue
    /\ physical_device = NoValue

\* update_command_buffer has not run
RecordIdle ==
    /\ secondary_buffers = NoValue
    /\ allocations = NoValue
    /\ device_commands = NoValue
    /\ recording = NoValue

\* no upload function has run
UploadIdle ==
    /\ uploader = NoValue
    /\ upload_pc = "idle"
    /\ device_objects = {}
    /\ uploads = 0
    /\ last_create = NoValue

\* the event loop of main has not started
ShutdownIdle ==
    /\ destroying = NoValue
    /\ control_flow = NoValue
    /\ app_calls = NoValue
    /\ handled = NoValue
    /\ loop = NoValue

Init ==
    /\ MemTypeIdle
    /\ FormatIdle
    /\ ExtentIdle
    /\ TransferIdle
    /\ SwapchainIdle
    /\ LifetimeIdle
    /\ PlacementIdle
    /\ ShaderIdle
    /\ PickIdle
    /\ RecordIdle
    /\ UploadIdle
    /\ ShutdownIdle
    /\ frame = 0
    /\ resized = FALSE
    /\ models = InitialModels
    /\ swapchain_images \in 1..MaxImages
    /\ swapchain_image_views = swapchain_images
    /\ framebuffers = swapchain_images
    /\ uniform_buffers = swapchain_images
    /\ uniform_buffers_memory = swapchain_images
    /\ descriptor_sets = swapchain_images
    /\ command_pools = swapchain_images
    /\ command_buffers = swapchain_images
    /\ secondary_command_buffers = Repeat(0, swapchain_images)
    /\ images_in_flight = Repeat(NullFence, swapchain_images)
    /\ fence_signaled = [f \in Fences |-> CreatedSignaled]
    /\ pending = <<>>
    /\ pc = "idle"
    /\ image_index = 0
    /\ after = "none"
    /\ ret = "none"
    /\ wait_semaphores = NoValue
    /\ signal_semaphores = NoValue
    /\ presentation_info = NoPresentation
    /\ recorded = {}
    /\ trace = <<>>
    /\ unobserved = {}
    /\ frame_at_entry = 0
    /\ recreations = 0

-----------------------------------------------------------------------------
(* The event loop of main: main.rs:88-119 *)

\* render returned a value to `unsafe { app.render(&window) }.unwrap()`
Return(value, event) ==
    /\ pc' = "done"
    /\ ret' = value
    /\ trace' = Append(trace, event)

\* Event::MainEventsCleared: main.rs:95-96, render is entered
MainEventsCleared ==
    /\ pc = "idle"
    /\ pc' = "wait_in_flight_fence"
    /\ trace' = <<>>
    /\ frame_at_entry' = frame
    /\ UNCHANGED <<startup, locals, recorded, frame, resized, models, appData,
                   secondary_command_buffers, images_in_flight, fence_signaled,
                   pending, image_index, after, ret, unobserved, recreations>>

\* WindowEvent::Resized(size): main.rs:98-105.  A size with a zero side only sets
\* main's local `minimized`, which nothing reads; any other size sets App::resized.
WindowResized ==
    /\ pc = "idle"
    /\ \E zero \in BOOLEAN :
        resized' = IF zero THEN resized ELSE TRUE
    /\ UNCHANGED <<startup, locals, recorded, frame, models, appData, secondary_command_buffers,
                   images_in_flight, fence_signaled, pending, pc, image_index,
                   after, ret, trace, unobserved, frame_at_entry, recreations>>

\* the model counts a key press can leave: one more or one less, within
\* [1, MaxModels]
ModelCounts(m) == {n \in {m - 1, m + 1} : n >= 1 /\ n <= MaxModels}

\* a key press adjusts the model count
KeyPressed ==
    /\ pc = "idle"
    /\ \E m \in ModelCounts(models) : models' = m
    /\ UNCHANGED <<startup, locals, recorded, frame, resized, appData, secondary_command_buffers,
                   images_in_flight, fence_signaled, pending, pc, image_index,
                   after, ret, trace, unobserved, frame_at_entry, recreations>>

\* `.unwrap()` on render's result: main.rs:96.  Ok(()) goes back to the event
\* loop; Err panics and ends the process, as a panic inside render does: the
\* state with pc = "done" and ret # "Ok" is final.
Unwrap ==
    /\ pc = "done"
    /\ ret = "Ok"
    /\ pc' = "idle"
    /\ ret' = "none"
    /\ trace' = <<>>
    /\ image_index' = 0
    /\ after' = "none"
    /\ frame_at_entry' = frame
    /\ wait_semaphores' = NoValue
    /\ signal_semaphores' = NoValue
    /\ presentation_info' = NoPresentation
    /\ UNCHANGED <<startup, recorded, frame, resized, models, appData,
                   secondary_command_buffers, images_in_flight, fence_signaled,
                   pending, unobserved, recreations>>

-----------------------------------------------------------------------------
(* The graphics queue *)

\* the oldest pending submission completes and signals its fence
GpuComplete ==
    /\ pending # <<>>
    /\ fence_signaled' = [fence_signaled EXCEPT ![Head(pending).fence] = TRUE]
    /\ pending' = Tail(pending)
    /\ UNCHANGED <<startup, locals, recorded, frame, resized, models, appData,
                   secondary_command_buffers, images_in_flight, pc, image_index,
                   after, ret, trace, unobserved, frame_at_entry, recreations>>

-----------------------------------------------------------------------------
(* App::render: app.rs:184-267 *)

\* faulty variant: after the throttle wait the call goes on without acquiring
WaitInFlightFence_NoAcquire ==
    /\ pc = "wait_in_flight_fence"
    /\ FenceWaitReturns(InFlightFence(frame))
    /\ pc' = "wait_image_in_flight"
    /\ trace' = Append(trace, "wait_in_flight_fence")
    /\ unobserved' = Observe(InFlightFence(frame))
    /\ UNCHANGED <<startup, locals, recorded, frame, resized, models, appData,
                   secondary_command_buffers, images_in_flight, fence_signaled,
                   pending, image_index, after, ret, frame_at_entry, recreations>>

\* app.rs:185-189: the throttle wait on in_flight_fences[frame]
WaitInFlightFence ==
    /\ pc = "wait_in_flight_fence"
    /\ \/ /\ FenceWaitReturns(InFlightFence(frame))
          /\ pc' = "acquire"
          /\ trace' = Append(trace, "wait_in_flight_fence")
          /\ unobserved' = Observe(InFlightFence(frame))
          /\ ret' = ret
       \/ /\ Return("Err", "wait_in_flight_fence:ERROR")
          /\ unobserved' = unobserved
    /\ UNCHANGED <<startup, locals, recorded, frame, resized, models, appData,
                   secondary_command_buffers, images_in_flight, fence_signaled,
                   pending, image_index, after, frame_at_entry, recreations>>

\* faulty variant: ERROR_OUT_OF_DATE_KHR from acquire does not abandon the frame
AcquireArm_OutOfDateGoesOn(result) ==
    IF result \in {"SUCCESS", "SUBOPTIMAL_KHR", "ERROR_OUT_OF_DATE_KHR"}
    THEN "index" ELSE "error"

\* what `match result` does with acquire_next_image_khr's result: app.rs:202-206.
\*   "index": Ok((image_index, _)), the frame goes on (SUCCESS and SUBOPTIMAL_KHR)
\*   "recreate": return self.recreate_swapchain(window)
\*   "error": return Err(anyhow!(e))
AcquireArm(result) ==
    CASE result \in {"SUCCESS", "SUBOPTIMAL_KHR"} -> "index"
      [] result = "ERROR_OUT_OF_DATE_KHR" -> "recreate"
      [] OTHER -> "error"

\* app.rs:191-206.  The presentation engine may hand out any image index of the
\* swapchain; an error carries no index.
AcquireNextImage ==
    /\ pc = "acquire"
    /\ \E result \in {"SUCCESS", "ERROR_OUT_OF_DATE_KHR", "ERROR_DEVICE_LOST"},
          i \in 0..(swapchain_images - 1) :
        /\ result # "SUCCESS" => i = 0
        /\ CASE AcquireArm(result) = "index" ->
                  /\ image_index' = i
                  /\ pc' = "wait_image_in_flight"
                  /\ trace' = Append(trace, "acquire:" \o result)
                  /\ UNCHANGED <<after, ret>>
             [] AcquireArm(result) = "recreate" ->
                  /\ pc' = "recreate_swapchain"
                  /\ after' = "acquire"
                  /\ trace' = Append(trace, "acquire:" \o result)
                  /\ UNCHANGED <<image_index, ret>>
             [] OTHER ->
                  /\ Return("Err", "acquire:" \o result)
                  /\ UNCHANGED <<image_index, after>>
    /\ UNCHANGED <<startup, locals, recorded, frame, resized, models, appData,
                   secondary_command_buffers, images_in_flight, fence_signaled,
                   pending, unobserved, frame_at_entry, recreations>>

\* app.rs:208-216: the hazard wait on images_in_flight[image_index], then the claim
WaitImageInFlight ==
    /\ pc = "wait_image_in_flight"
    /\ \/ /\ ~NeedsImageWait(image_index)
          /\ trace' = Append(trace, "claim")
          /\ unobserved' = unobserved
          /\ images_in_flight' =
                [images_in_flight EXCEPT ![image_index + 1] = InFlightFence(frame)]
          /\ pc' = "update_command_buffer"
          /\ ret' = ret
       \/ /\ NeedsImageWait(image_index)
          /\ FenceWaitReturns(images_in_flight[image_index + 1])
          /\ trace' = trace \o <<"wait_image_in_flight", "claim">>
          /\ unobserved' = Observe(images_in_flight[image_index + 1])
          /\ images_in_flight' =
                [images_in_flight EXCEPT ![image_index + 1] = InFlightFence(frame)]
          /\ pc' = "update_command_buffer"
          /\ ret' = ret
       \/ /\ NeedsImageWait(image_index)
          /\ Return("Err", "wait_image_in_flight:ERROR")
          /\ UNCHANGED <<unobserved, images_in_flight>>
    /\ UNCHANGED <<startup, locals, recorded, frame, resized, models, appData,
                   secondary_command_buffers, fence_signaled, pending,
                   image_index, after, frame_at_entry, recreations>>

\* app.rs:218 and 312-362: reset the image's pool, record the primary buffer and
\* one secondary buffer per model.  An index past the end of a Vec panics.
UpdateCommandBuffer ==
    /\ pc = "update_command_buffer"
    /\ \/ IF /\ image_index < command_pools
             /\ image_index < command_buffers
             /\ image_index < framebuffers
             /\ image_index < descriptor_sets
          THEN /\ secondary_command_buffers' =
                     UpdateSecondaries(secondary_command_buffers, image_index, models)
               /\ recorded' = recorded \cup {image_index}
               /\ pc' = "update_uniform_buffer"
               /\ trace' = Append(trace, "update_command_buffer")
               /\ ret' = ret
          ELSE /\ Return("panic", "update_command_buffer:PANIC")
               /\ UNCHANGED <<secondary_command_buffers, recorded>>
       \/ /\ Return("Err", "update_command_buffer:ERROR")
          /\ UNCHANGED <<secondary_command_buffers, recorded>>
    /\ UNCHANGED <<startup, locals, frame, resized, models, appData, images_in_flight,
                   fence_signaled, pending, image_index, after, unobserved,
                   frame_at_entry, recreations>>

\* app.rs:219 and 269-310: map, copy, unmap the image's uniform memory
UpdateUniformBuffer ==
    /\ pc = "update_uniform_buffer"
    /\ \/ IF image_index < uniform_buffers_memory
          THEN /\ pc' = "reset_fences"
               /\ trace' = Append(trace, "update_uniform_buffer")
               /\ ret' = ret
          ELSE Return("panic", "update_uniform_buffer:PANIC")
       \/ Return("Err", "update_uniform_buffer:ERROR")
    /\ UNCHANGED <<startup, locals, recorded, frame, resized, models, appData,
                   secondary_command_buffers, images_in_flight, fence_signaled,
                   pending, image_index, after, unobserved, frame_at_entry, recreations>>

\* app.rs:222-236: choose the semaphores of the frame slot, then reset its fence
ResetFences ==
    /\ pc = "reset_fences"
    /\ \/ /\ wait_semaphores' = WaitSemaphores(frame)
          /\ signal_semaphores' = SignalSemaphores(frame)
          /\ fence_signaled' = [fence_signaled EXCEPT ![InFlightFence(frame)] = FALSE]
          /\ pc' = "queue_submit"
          /\ trace' = Append(trace, "reset_fences")
          /\ ret' = ret
       \/ /\ Return("Err", "reset_fences:ERROR")
          /\ UNCHANGED <<fence_signaled, wait_semaphores, signal_semaphores>>
    /\ UNCHANGED <<startup, presentation_info, recorded, frame, resized, models, appData,
                   secondary_command_buffers, images_in_flight, pending,
                   image_index, after, unobserved, frame_at_entry, recreations>>

\* faulty variant: the submission is given the fence of the other frame slot
Submission_OtherSlot ==
    [fence |-> InFlightFence(NextFrame(frame)), image |-> image_index,
     wait_semaphores |-> wait_semaphores, signal_semaphores |-> signal_semaphores]

\* submit_info and the fence handed to queue_submit: app.rs:227-241
Submission ==
    [fence |-> InFlightFence(frame), image |-> image_index,
     wait_semaphores |-> wait_semaphores, signal_semaphores |-> signal_semaphores]

\* app.rs:238-242: the submission signals in_flight_fences[frame] on completion
QueueSubmit ==
    /\ pc = "queue_submit"
    /\ \/ /\ pending' = Append(pending, Submission)
          /\ unobserved' = unobserved \cup {Submission}
          /\ pc' = "queue_present"
          /\ trace' = Append(trace, "queue_submit")
          /\ ret' = ret
       \/ /\ Return("Err", "queue_submit:ERROR")
          /\ UNCHANGED <<pending, unobserved>>
    /\ UNCHANGED <<startup, locals, recorded, frame, resized, models, appData,
                   secondary_command_buffers, images_in_flight, fence_signaled,
                   image_index, after, frame_at_entry, recreations>>

\* app.rs:245-266: present, then recreate, fail, or advance the frame slot
QueuePresent ==
    /\ pc = "queue_present"
    /\ presentation_info' =
          [wait_semaphores |-> signal_semaphores, image_indices |-> <<image_index>>]
    /\ \E result \in {"SUCCESS", "SUBOPTIMAL_KHR", "ERROR_OUT_OF_DATE_KHR",
                      "ERROR_SURFACE_LOST_KHR"} :
        /\ IF MustRecreate(result)
           THEN /\ pc' = "recreate_swapchain"
                /\ after' = "present"
                /\ trace' = Append(trace, "queue_present:" \o result)
                /\ UNCHANGED <<frame, ret>>
           ELSE IF IsErr(result)
           THEN /\ Return("Err", "queue_present:" \o result)
                /\ UNCHANGED <<frame, after>>
           ELSE /\ frame' = NextFrame(frame)
                /\ Return("Ok", "queue_present:" \o result)
                /\ after' = after
    /\ UNCHANGED <<startup, wait_semaphores, signal_semaphores, recorded, resized, models,
                   appData, secondary_command_buffers,
                   images_in_flight, fence_signaled, pending, image_index,
                   unobserved, frame_at_entry, recreations>>

-----------------------------------------------------------------------------
(* App::recreate_swapchain: app.rs:473-498 *)

\* The points where recreate_swapchain can stop, in call order: a failing
\* device_wait_idle is the action's first disjunct; "create_swapchain" stands for a
\* create_* call failing before any Vec was replaced, "create_command_buffers" for a
\* failure once the swapchain, its views, framebuffers, uniform buffers and
\* descriptor sets are rebuilt; "return" is the normal end.  destroy_swapchain
\* (app.rs:500-529) destroys handles and leaves every Vec as it is.
RecreateCalls == <<"create_swapchain", "create_command_buffers", "return">>

CallNo(call) == CHOOSE k \in 1..Len(RecreateCalls) : RecreateCalls[k] = call

\* whether `call` has run to its end when the function stops in call number `stop`
Ran(call, stop) == CallNo(call) < stop

\* create_command_buffers (commandbuffer.rs:76-92) pushes one primary buffer per
\* image onto command_buffers and indexes command_pools by image: it panics at the
\* first image that has no pool.
CommandBuffersPanics(n) == n > command_pools

CommandBuffersAfter(n) ==
    command_buffers + (IF CommandBuffersPanics(n) THEN command_pools ELSE n)

\* faulty variant: the table is not resized
ImagesInFlightAfter_NoResize(n) == images_in_flight

\* faulty variant: the table is rebuilt with every entry null
ImagesInFlightAfter_Cleared(n) == Repeat(NullFence, n)

\* app.rs:492-495
ImagesInFlightAfter(n) == Resize(images_in_flight, n, NullFence)

\* device_wait_idle, destroy_swapchain, then the create_* calls for a swapchain of
\* n images.  `stop` is the call that fails (or "return"); a panic of
\* create_command_buffers stops there whatever `stop` says.
RecreateSwapchain ==
    /\ pc = "recreate_swapchain"
    /\ recreations < MaxRecreations
    /\ \/ /\ Return("Err", "device_wait_idle:ERROR")
          /\ UNCHANGED <<frame, appData, secondary_command_buffers,
                         images_in_flight, unobserved, recreations, recorded>>
       \/ /\ DeviceIdle
          /\ \E n \in 1..MaxImages, stop \in 1..Len(RecreateCalls) :
              LET panics == CommandBuffersPanics(n) /\ stop >= CallNo("create_command_buffers")
                  end    == IF panics THEN CallNo("create_command_buffers") ELSE stop
                  ok     == end = Len(RecreateCalls)
              IN  /\ swapchain_images' =
                        IF Ran("create_swapchain", end) THEN n ELSE swapchain_images
                  /\ swapchain_image_views' =
                        IF Ran("create_swapchain", end) THEN n ELSE swapchain_image_views
                  /\ framebuffers' =
                        IF Ran("create_swapchain", end) THEN n ELSE framebuffers
                  /\ uniform_buffers' =
                        IF Ran("create_swapchain", end) THEN n ELSE uniform_buffers
                  /\ uniform_buffers_memory' =
                        IF Ran("create_swapchain", end) THEN n ELSE uniform_buffers_memory
                  /\ descriptor_sets' =
                        IF Ran("create_swapchain", end) THEN n ELSE descriptor_sets
                  /\ command_pools' = command_pools
                  /\ command_buffers' =
                        IF Ran("create_command_buffers", end) \/ panics
                        THEN CommandBuffersAfter(n) ELSE command_buffers
                  /\ secondary_command_buffers' =
                        IF Ran("create_command_buffers", end)
                        THEN Repeat(0, n) ELSE secondary_command_buffers
                  /\ recorded' =
                        IF Ran("create_command_buffers", end) THEN {} ELSE recorded
                  /\ images_in_flight' =
                        IF Ran("create_command_buffers", end)
                        THEN ImagesInFlightAfter(n) ELSE images_in_flight
                  /\ unobserved' = {}
                  /\ recreations' = IF ok THEN recreations + 1 ELSE recreations
                  /\ frame' = IF ok /\ after = "present" THEN NextFrame(frame) ELSE frame
                  /\ Return(IF ok THEN "Ok" ELSE IF panics THEN "panic" ELSE "Err",
                            IF ok THEN "recreate_swapchain"
                            ELSE IF panics THEN "recreate_swapchain:PANIC"
                            ELSE "recreate_swapchain:ERROR")
    /\ UNCHANGED <<startup, locals, resized, models, fence_signaled, pending,
                   image_index, after, frame_at_entry>>

-----------------------------------------------------------------------------

Next ==
    \/ MainEventsCleared
    \/ WindowResized
    \/ KeyPressed
    \/ Unwrap
    \/ GpuComplete
    \/ WaitInFlightFence
    \/ AcquireNextImage
    \/ WaitImageInFlight
    \/ UpdateCommandBuffer
    \/ UpdateUniformBuffer
    \/ ResetFences
    \/ QueueSubmit
    \/ QueuePresent
    \/ RecreateSwapchain

Spec == Init /\ [][Next]_vars

-----------------------------------------------------------------------------
(* Properties *)

AcquireOutOfDate == "acquire:ERROR_OUT_OF_DATE_KHR"

PresentEvents == {"queue_present:SUCCESS", "queue_present:SUBOPTIMAL_KHR",
                  "queue_present:ERROR_OUT_OF_DATE_KHR",
                  "queue_present:ERROR_SURFACE_LOST_KHR"}

\* how a call of recreate_swapchain shows in the trace: its normal end, or its failure
RecreateEnds == {"recreate_swapchain", "recreate_swapchain:ERROR",
                 "recreate_swapchain:PANIC", "device_wait_idle:ERROR"}

RecreateFailed == {"recreate_swapchain:ERROR", "recreate_swapchain:PANIC",
                   "device_wait_idle:ERROR"}

\* the API failures render can meet that are no control signal
FailureEvents == {"wait_in_flight_fence:ERROR", "acquire:ERROR_DEVICE_LOST",
                  "wait_image_in_flight:ERROR", "reset_fences:ERROR",
                  "queue_submit:ERROR", "queue_present:ERROR_SURFACE_LOST_KHR"}

Has(s, e) == \E k \in 1..Len(s) : s[k] = e

Count(s, e) == Cardinality({k \in 1..Len(s) : s[k] = e})

HasAny(s, events) == \E k \in 1..Len(s) : s[k] \in events

CountAny(s, events) == Cardinality({k \in 1..Len(s) : s[k] \in events})

\* no submission that used `image` is pending on the GPU, and the CPU has seen the
\* fence of every earlier submission that used it signalled
ImageIdle(image) ==
    /\ \A k \in 1..Len(pending) : pending[k].image # image
    /\ \A s \in unobserved : s.image # image

\* recreate_swapchain has run to its end in the render call that just returned
RecreateCompleted == pc = "done" /\ Has(trace, "recreate_swapchain")

\* C1: render resets the pool of image i and re-records its command buffers only
\* when no earlier submission that used image i is still pending, its fence having
\* been seen signalled by the throttle wait or the hazard wait.
C1_RecordOnlyIdleImage ==
    pc = "update_command_buffer" => ImageIdle(image_index)

\* C1 witness: a frame after a recreation took the hazard wait and is about to
\* record while the other slot's submission is still pending.
C1_Witness ==
    /\ pc = "update_command_buffer"
    /\ Has(trace, "wait_image_in_flight")
    /\ pending # <<>>
    /\ recreations > 0

\* C2: at most MAX_FRAMES_IN_FLIGHT submissions are pending at any time, and at most
\* MAX_FRAMES_IN_FLIGHT - 1 when render starts recording a frame.
C2_FramesInFlightBounded ==
    /\ Len(pending) <= MAX_FRAMES_IN_FLIGHT
    /\ pc = "update_command_buffer" => Len(pending) <= MAX_FRAMES_IN_FLIGHT - 1

\* C2 witness: MAX_FRAMES_IN_FLIGHT submissions are pending at once.
C2_Witness == Len(pending) = MAX_FRAMES_IN_FLIGHT

\* C3: once recreate_swapchain has completed, images_in_flight has one entry per
\* image of the current swapchain, whether the image count grew or shrank.
C3_TableLengthIsImageCount ==
    (recreations > 0 /\ ~(pc = "done" /\ HasAny(trace, RecreateFailed)))
        => Len(images_in_flight) = swapchain_images

\* C3 witness: the swapchain shrank from 2 images to 1 and grew back to 2
\* (command_buffers holds 2 + 1 + 2 handles).
C3_Witness ==
    /\ RecreateCompleted
    /\ recreations = 2
    /\ swapchain_images = 2
    /\ command_buffers = 5
    /\ Len(images_in_flight) = 2

\* C4: update_uniform_buffer writes the uniform memory of image i only when every
\* earlier submission that reads it has completed and its fence was seen signalled.
C4_UniformWriteOnlyIdleImage ==
    pc = "update_uniform_buffer" => ImageIdle(image_index)

\* C4 witness: the uniform write of a frame that took the hazard wait, with the
\* other slot's submission still pending.
C4_Witness ==
    /\ pc = "update_uniform_buffer"
    /\ Has(trace, "wait_image_in_flight")
    /\ pending # <<>>

\* C5: when acquire reports OUT_OF_DATE, render recreates the swapchain and returns:
\* no claim, no recording, no uniform write, no fence reset, no submit, no present,
\* and the frame slot is not advanced.
C5_OutOfDateAbandonsFrame ==
    Has(trace, AcquireOutOfDate) =>
        /\ SubSeq(trace, 1, 2) = <<"wait_in_flight_fence", AcquireOutOfDate>>
        /\ \A k \in 3..Len(trace) : k = 3 /\ trace[k] \in RecreateEnds
        /\ pc \in {"recreate_swapchain", "done"}
        /\ (pc = "done" /\ ret = "Ok") => trace[Len(trace)] = "recreate_swapchain"
        /\ frame = frame_at_entry
        /\ fence_signaled[InFlightFence(frame)]
        /\ \A k \in 1..Len(pending) : pending[k].fence # InFlightFence(frame)

\* C5 witness: render returned after an abandoned frame.
C5_Witness ==
    /\ pc = "done"
    /\ ret = "Ok"
    /\ Has(trace, AcquireOutOfDate)
    /\ \E k \in 1..Len(images_in_flight) : images_in_flight[k] # NullFence

\* C6: a presentation result SUBOPTIMAL or OUT_OF_DATE, or the resized flag, makes
\* the same render call recreate the swapchain, and a recreation in a frame that
\* recorded comes after its one submit and its one present, directly after present.
C6_RecreateAfterSubmitAndPresent ==
    /\ (pc = "done" /\ HasAny(trace, PresentEvents)
           /\ (resized \/ Has(trace, "queue_present:SUBOPTIMAL_KHR")
                       \/ Has(trace, "queue_present:ERROR_OUT_OF_DATE_KHR")))
          => trace[Len(trace)] \in RecreateEnds
    /\ \A p \in 1..Len(trace) :
          (trace[p] \in RecreateEnds /\ Has(trace, "update_command_buffer")) =>
              /\ p = Len(trace)
              /\ p > 2
              /\ trace[p - 1] \in PresentEvents
              /\ trace[p - 2] = "queue_submit"
              /\ Count(trace, "queue_submit") = 1
              /\ CountAny(trace, PresentEvents) = 1
    /\ (pc = "recreate_swapchain" /\ after = "present") =>
          /\ Len(trace) > 1
          /\ trace[Len(trace)] \in PresentEvents
          /\ trace[Len(trace) - 1] = "queue_submit"

\* C6 witness: a frame was submitted, presented with SUBOPTIMAL, and the swapchain
\* was then recreated in the same call.
C6_Witness ==
    /\ RecreateCompleted
    /\ Has(trace, "queue_submit")
    /\ Has(trace, "queue_present:SUBOPTIMAL_KHR")

\* C7: every unexpected API failure render meets makes it return an error, whatever
\* the value of the resized flag.
C7_FailureIsReturned ==
    (pc = "done" /\ HasAny(trace, FailureEvents)) => ret # "Ok"

\* C8: acquire reporting OUT_OF_DATE, or present reporting SUBOPTIMAL or OUT_OF_DATE,
\* is followed by a recreation, and render returns success when that recreation
\* succeeds.
C8_ControlSignalsReturnOk ==
    (pc = "done"
       /\ HasAny(trace, {AcquireOutOfDate, "queue_present:SUBOPTIMAL_KHR",
                         "queue_present:ERROR_OUT_OF_DATE_KHR"})
       /\ ~HasAny(trace, RecreateFailed))
        => (ret = "Ok" /\ trace[Len(trace)] = "recreate_swapchain")

\* C8 witness: present reported OUT_OF_DATE and render returned Ok.
C8_Witness ==
    /\ pc = "done"
    /\ ret = "Ok"
    /\ Has(trace, "queue_present:ERROR_OUT_OF_DATE_KHR")

\* C9: the render call that recreates the swapchain because of the resized flag
\* (acquire and present both reported SUCCESS) leaves the flag cleared, so that later
\* calls without a new resize notification do not recreate.
C9_ResizedFlagConsumed ==
    (RecreateCompleted /\ Has(trace, "queue_present:SUCCESS")) => ~resized

\* C10 as claimed: after recreate_swapchain completes every entry of
\* images_in_flight is the null fence.
C10_AllEntriesNull ==
    RecreateCompleted =>
        \A k \in 1..Len(images_in_flight) : images_in_flight[k] = NullFence

\* C10 amended: after recreate_swapchain completes every entry of images_in_flight
\* is the null fence or a signalled in-flight fence with no pending submission, and
\* the entry the recreating frame claimed is kept when its index is still in range.
C10_EntriesKeptAndSignalled ==
    RecreateCompleted =>
        /\ \A k \in 1..Len(images_in_flight) :
              \/ images_in_flight[k] = NullFence
              \/ /\ images_in_flight[k] \in Fences
                 /\ fence_signaled[images_in_flight[k]]
                 /\ \A j \in 1..Len(pending) : pending[j].fence # images_in_flight[k]
        /\ (after = "present" /\ image_index < swapchain_images)
              => images_in_flight[image_index + 1] = InFlightFence(frame_at_entry)

\* C10 witness: a recreation after present completed and the claimed entry survives.
C10_Witness ==
    /\ RecreateCompleted
    /\ after = "present"
    /\ image_index < swapchain_images
    /\ images_in_flight[image_index + 1] # NullFence

-----------------------------------------------------------------------------
(* Per-image collections and secondary command buffers *)

\* App::create has returned and no frame was recorded yet
JustCreated == pc = "idle" /\ recreations = 0 /\ recorded = {}

\* length of the secondary-command-buffer list of the image at sequence index j
ListLen(scb, j) == IF j <= Len(scb) THEN scb[j] ELSE 0

Max(a, b) == IF a >= b THEN a ELSE b

RecreateDestroyed == {"recreate_swapchain", "recreate_swapchain:ERROR",
                      "recreate_swapchain:PANIC"}

Submissions == unobserved \cup {pending[k] : k \in 1..Len(pending)}

\* C11: after startup and after every completed recreation each per-image
\* collection (image views, framebuffers, command pools, primary command buffers,
\* secondary-buffer lists, uniform buffers, uniform memories, descriptor sets) holds
\* exactly one entry per image of the current swapchain.
C11_OneEntryPerImage ==
    (JustCreated \/ RecreateCompleted) =>
        /\ swapchain_image_views = swapchain_images
        /\ framebuffers = swapchain_images
        /\ command_pools = swapchain_images
        /\ command_buffers = swapchain_images
        /\ Len(secondary_command_buffers) = swapchain_images
        /\ uniform_buffers = swapchain_images
        /\ uniform_buffers_memory = swapchain_images
        /\ descriptor_sets = swapchain_images

\* C12: between two recreations, recording a frame for image i leaves the secondary
\* list of every image j at least as long as before, and the list of image i grows
\* only by the model indices it did not cover yet.
C12_SecondaryListsGrowthOnly ==
    [][pc = "update_command_buffer" =>
          /\ \A j \in 1..swapchain_images :
                ListLen(secondary_command_buffers', j)
                    >= ListLen(secondary_command_buffers, j)
          /\ pc' = "update_uniform_buffer" =>
                ListLen(secondary_command_buffers', image_index + 1)
                    = Max(ListLen(secondary_command_buffers, image_index + 1), models)
      ]_vars

\* C13: recreate_swapchain leaves the model count unchanged, and the first frame
\* recorded for an image after a recreation records exactly `models` secondary
\* command buffers for that image.
C13_FirstFrameRecordsModelCount ==
    [][/\ pc = "recreate_swapchain" => models' = models
       /\ (/\ pc = "update_command_buffer"
           /\ pc' = "update_uniform_buffer"
           /\ recreations > 0
           /\ image_index \notin recorded)
             => /\ Len(secondary_command_buffers') > image_index
                /\ secondary_command_buffers'[image_index + 1] = models
      ]_vars

\* C13 witness: with 3 models, an image whose images_in_flight entry was still null
\* (so never claimed since the recreation) has just been recorded with 3 buffers.
C13_Witness ==
    /\ pc = "update_uniform_buffer"
    /\ recreations > 0
    /\ models = 3
    /\ ~Has(trace, "wait_image_in_flight")
    /\ recorded = {image_index}
    /\ secondary_command_buffers[image_index + 1] = 3

\* C14: the submission of a frame in slot f waits on image_available_semaphores[f]
\* and signals render_finished_semaphores[f]; the present request of that frame names
\* the frame's image and waits on exactly render_finished_semaphores[f], which no
\* submission for another image or slot signals.
C14_PresentWaitsOnOwnSubmission ==
    /\ \A s \in Submissions :
          \E f \in 0..(MAX_FRAMES_IN_FLIGHT - 1) :
              /\ s.fence = InFlightFence(f)
              /\ s.wait_semaphores = <<image_available_semaphores[f + 1]>>
              /\ s.signal_semaphores = <<render_finished_semaphores[f + 1]>>
    /\ presentation_info # NoPresentation =>
          /\ presentation_info.image_indices = <<image_index>>
          /\ presentation_info.wait_semaphores
                = <<render_finished_semaphores[frame_at_entry + 1]>>
          /\ \A s \in Submissions :
                s.signal_semaphores = presentation_info.wait_semaphores
                    => (s.image = image_index /\ s.fence = InFlightFence(frame_at_entry))
          /\ ~(pc = "done" /\ HasAny(trace, RecreateDestroyed))
                => \E s \in unobserved :
                      /\ s.image = image_index
                      /\ s.signal_semaphores = presentation_info.wait_semaphores

\* C14 witness: a frame in slot 1 drew into image 1 and was presented while the
\* submission of slot 0 is still pending.
C14_Witness ==
    /\ pc = "done"
    /\ ret = "Ok"
    /\ frame_at_entry = 1
    /\ image_index = 1
    /\ presentation_info.wait_semaphores = <<render_finished_semaphores[2]>>
    /\ Len(pending) = 2

\* C15: recreate_swapchain destroys the swapchain-dependent objects only after
\* device_wait_idle returned: no submission is pending when they are destroyed.
C15_DestroyOnlyWhenDeviceIdle ==
    [][(/\ pc = "recreate_swapchain"
        /\ pc' = "done"
        /\ trace'[Len(trace')] \in RecreateDestroyed)
          => pending = <<>>
      ]_vars

\* C15 witness: a frame was submitted and the swapchain recreated in the same call;
\* the submission had completed by then.
C15_Witness ==
    /\ pc = "done"
    /\ Has(trace, "queue_submit")
    /\ HasAny(trace, RecreateDestroyed)
    /\ pending = <<>>
    /\ \A f \in Fences : fence_signaled[f]

\* C26: the model count is 1 after startup and stays within [1, 4] whatever key
\* presses, resizes, frames and recreations follow.
C26_ModelCountInRange == models = 1 /\ [](models >= 1 /\ models <= 4)

\* C26 witness: key presses took the count to 4 and a frame drew 4 models on a
\* recreated swapchain.
C26_Witness ==
    /\ models = 4
    /\ pc = "done"
    /\ ret = "Ok"
    /\ recreations > 0
    /\ \E j \in 1..Len(secondary_command_buffers) : secondary_command_buffers[j] = 4

\* C30: the frame slot is always in [0, MAX_FRAMES_IN_FLIGHT); a render call that
\* submitted a frame and returned Ok, with or without a recreation after present,
\* leaves it advanced by one modulo MAX_FRAMES_IN_FLIGHT; a call that abandoned
\* the frame or did not return Ok leaves it as it was; it changes nowhere else.
C30_FrameSlotAdvance ==
    /\ frame >= 0
    /\ frame < MAX_FRAMES_IN_FLIGHT
    /\ pc # "done" => frame = frame_at_entry
    /\ pc = "done" =>
          IF ret = "Ok" /\ Has(trace, "queue_submit")
          THEN frame = (frame_at_entry + 1) % MAX_FRAMES_IN_FLIGHT
          ELSE frame = frame_at_entry

\* C30 witness: a call started in the last slot, submitted, recreated the
\* swapchain after present and returned with the slot wrapped to 0.
C30_Witness ==
    /\ pc = "done"
    /\ ret = "Ok"
    /\ frame_at_entry = MAX_FRAMES_IN_FLIGHT - 1
    /\ frame = 0
    /\ Has(trace, "queue_submit")
    /\ trace[Len(trace)] = "recreate_swapchain"

\* the step of render an event of the trace belongs to, in the order of app.rs:184-267
Step(e) ==
    CASE e \in {"wait_in_flight_fence", "wait_in_flight_fence:ERROR"} -> 1
      [] e \in {"acquire:SUCCESS", "acquire:SUBOPTIMAL_KHR", AcquireOutOfDate,
                "acquire:ERROR_DEVICE_LOST"} -> 2
      [] e \in {"wait_image_in_flight", "wait_image_in_flight:ERROR"} -> 3
      [] e = "claim" -> 4
      [] e \in {"update_command_buffer", "update_command_buffer:ERROR",
                "update_command_buffer:PANIC"} -> 5
      [] e \in {"update_uniform_buffer", "update_uniform_buffer:ERROR",
                "update_uniform_buffer:PANIC"} -> 6
      [] e \in {"reset_fences", "reset_fences:ERROR"} -> 7
      [] e \in {"queue_submit", "queue_submit:ERROR"} -> 8
      [] e \in PresentEvents -> 9
      [] e \in RecreateEnds -> 10

\* the steps that must have gone before an event of step n: every step from the
\* throttle wait on, except the hazard wait, which is skipped for an image that
\* no frame has claimed; a recreation needs only what its call site needs
Before(n) ==
    CASE n = 10 -> {}
      [] OTHER -> {k \in 1..(n - 1) : k # 3}

\* C31: the calls of one render call happen in the order throttle wait, acquire,
\* hazard wait, claim, recording, uniform write, fence reset, submit, present,
\* none twice and none without those before it; recreate_swapchain is entered only
\* directly after acquire reported out-of-date or directly after present; and a
\* call in which recreate_swapchain ran to its end returned Ok to the event loop.
C31_RenderOrder ==
    /\ \A k \in 1..Len(trace) :
          /\ \A j \in 1..(k - 1) : Step(trace[j]) < Step(trace[k])
          /\ \A n \in Before(Step(trace[k])) :
                \E j \in 1..(k - 1) : Step(trace[j]) = n /\ trace[j] \notin FailureEvents
          /\ trace[k] \in RecreateEnds =>
                k > 1 /\ trace[k - 1] \in {AcquireOutOfDate} \cup PresentEvents
    /\ pc = "recreate_swapchain" =>
          /\ trace # <<>>
          /\ trace[Len(trace)] \in {AcquireOutOfDate} \cup PresentEvents
          /\ after = (IF trace[Len(trace)] = AcquireOutOfDate THEN "acquire" ELSE "present")
    /\ pc = "queue_present" => trace[Len(trace)] = "queue_submit"
    /\ pc = "done" /\ Has(trace, "recreate_swapchain") =>
          ret = "Ok" /\ trace[Len(trace)] = "recreate_swapchain"
    /\ pc = "idle" => trace = <<>>

\* C31 witness: a call went through every step, hazard wait included, entered
\* recreate_swapchain after present and returned Ok.
C31_Witness ==
    /\ pc = "done"
    /\ ret = "Ok"
    /\ Len(trace) = 10
    /\ Has(trace, "wait_image_in_flight")
    /\ trace[Len(trace)] = "recreate_swapchain"

\* a pending submission will signal `fence` when it completes
SignalPending(fence) == \E k \in 1..Len(pending) : pending[k].fence = fence

\* the fences the application holds: one per frame slot, and the table's entries
HeldFences ==
    Fences \cup {images_in_flight[k] : k \in {j \in 1..Len(images_in_flight) :
                                                images_in_flight[j] # NullFence}}

\* C32: the only reset of an in-flight fence is followed, in the same render call
\* and with nothing between, by queue_submit with that fence; at the moment of the
\* submission the fence is unsignalled and no earlier submission is left to signal
\* it; and whenever no render call is under way every fence the application holds
\* is signalled or is the fence of a pending submission.  A fence that is reset
\* and not submitted exists only between the two calls, or in the final state of
\* a call whose queue_submit failed.
C32_ResetOnlyBeforeSubmit ==
    /\ \A k \in 1..Len(trace) :
          trace[k] = "reset_fences" =>
             IF k = Len(trace) THEN pc = "queue_submit"
             ELSE trace[k + 1] \in {"queue_submit", "queue_submit:ERROR"}
    /\ pc = "queue_submit" =>
          /\ ~fence_signaled[InFlightFence(frame)]
          /\ ~SignalPending(InFlightFence(frame))
    /\ \A k \in 1..Len(pending) : pending[k].fence \in Fences
    /\ pc \in {"idle", "done"} /\ ret \in {"none", "Ok"} =>
          \A fence \in HeldFences : fence_signaled[fence] \/ SignalPending(fence)
    /\ \A fence \in HeldFences :
          ~fence_signaled[fence] /\ ~SignalPending(fence) =>
             \/ pc = "queue_submit" /\ fence = InFlightFence(frame)
             \/ pc = "done" /\ trace[Len(trace)] = "queue_submit:ERROR"
                            /\ fence = InFlightFence(frame)

\* C32 witness: between two render calls the fence of a frame slot, which is also
\* an entry of the images-in-flight table, is unsignalled and its submission is
\* pending.
C32_Witness ==
    /\ pc = "idle"
    /\ \E k \in 1..Len(images_in_flight) :
          /\ images_in_flight[k] # NullFence
          /\ ~fence_signaled[images_in_flight[k]]
          /\ SignalPending(images_in_flight[k])

\* the positions of render at which image_index holds an index acquire returned
HoldsIndex == {"wait_image_in_flight", "update_command_buffer", "update_uniform_buffer",
               "reset_fences", "queue_submit", "queue_present"}

\* C36: whatever recreations went before, also one that built more images than
\* App::create did, an index returned by acquire lies within images_in_flight,
\* command_pools, command_buffers, framebuffers, uniform_buffers_memory and
\* descriptor_sets, and no render call ends in an index-out-of-range panic.
C36_IndexInBounds ==
    /\ pc \in HoldsIndex =>
          /\ image_index < Len(images_in_flight)
          /\ image_index < command_pools
          /\ image_index < command_buffers
          /\ image_index < framebuffers
          /\ image_index < uniform_buffers_memory
          /\ image_index < descriptor_sets
    /\ ~(pc = "done" /\ ret = "panic")

\* a step of the CPU thread inside render
RenderStep ==
    \/ WaitInFlightFence
    \/ AcquireNextImage
    \/ WaitImageInFlight
    \/ UpdateCommandBuffer
    \/ UpdateUniformBuffer
    \/ ResetFences
    \/ QueueSubmit
    \/ QueuePresent
    \/ RecreateSwapchain

\* The frame scheduler with its progress conditions: the GPU completes every
\* submission, and a device call of render that can return without an error
\* does return.  Nothing makes a call fail, and nothing makes a wait return
\* whose fence is not signalled.  Key presses are left out: they change only
\* the model count, which no wait and no branch of render reads.
SpecLive ==
    /\ Init
    /\ [][MainEventsCleared \/ WindowResized \/ Unwrap \/ GpuComplete \/ RenderStep]_vars
    /\ WF_vars(GpuComplete)
    /\ WF_vars(RenderStep /\ ret' \notin {"Err", "panic"})

InRender == pc \notin {"idle", "done"}

\* the run has used up the recreations it explores
RecreationsExplored == pc = "recreate_swapchain" /\ recreations = MaxRecreations

\* C35: every render call returns: from any position inside render, after any
\* frames, abandoned frames and recreations, the call reaches its return (or the
\* last recreation the run explores).
C35_RenderReturns == InRender ~> (pc = "done" \/ RecreationsExplored)

\* C35 witness: a call returned Ok after it waited on the fence of its frame slot
\* and on the fence of its image, after a recreation and an abandoned frame.
C35_Witness ==
    /\ pc = "done"
    /\ ret = "Ok"
    /\ recreations > 0
    /\ Has(trace, "wait_in_flight_fence")
    /\ Has(trace, "wait_image_in_flight")
    /\ Has(trace, "queue_submit")

-----------------------------------------------------------------------------
(* The functions of App::create, each checked on its own: the App does not *)
(* exist yet while they run.  The specifications of the handles and of the *)
(* model matrix leave the frame scheduler in this state too.               *)

NotCreated ==
    /\ frame = NoValue
    /\ resized = NoValue
    /\ models = NoValue
    /\ swapchain_images = NoValue
    /\ swapchain_image_views = NoValue
    /\ framebuffers = NoValue
    /\ uniform_buffers = NoValue
    /\ uniform_buffers_memory = NoValue
    /\ descriptor_sets = NoValue
    /\ command_pools = NoValue
    /\ command_buffers = NoValue
    /\ secondary_command_buffers = NoValue
    /\ images_in_flight = NoValue
    /\ fence_signaled = NoValue
    /\ pending = NoValue
    /\ pc = NoValue
    /\ image_index = NoValue
    /\ after = NoValue
    /\ ret = NoValue
    /\ wait_semaphores = NoValue
    /\ signal_semaphores = NoValue
    /\ presentation_info = NoValue
    /\ trace = NoValue
    /\ unobserved = NoValue
    /\ frame_at_entry = NoValue
    /\ recreations = NoValue
    /\ recorded = NoValue

\* Result<T, Error>
Ok(value) == <<"Ok", value>>

Err(message) == <<"Err", message>>

-----------------------------------------------------------------------------
(* get_memory_type_index: main.rs:1235-1250 *)

\* largest memory_type_count explored
MaxMemoryTypes == 2

\* requirements.memory_type_bits has bits 0 .. MaxMemoryTypes + 1
MemoryTypeBits == 0..(2^(MaxMemoryTypes + 2) - 1)

MemoryPropertyFlags == {"DEVICE_LOCAL", "HOST_VISIBLE", "HOST_COHERENT"}

\* memory_types[0 .. memory_type_count - 1]; the function reads no entry past them
MemoryProperties ==
    UNION {[memory_type_count : {n},
            memory_types : [1..n -> [property_flags : SUBSET MemoryPropertyFlags]]]
           : n \in 0..MaxMemoryTypes}

\* bits & (1 << i)
BitAnd1Shl(bits, i) == ((bits \div 2^i) % 2) * 2^i

\* faulty variant: the property flags are not looked at
Suitable_BitOnly(mem, props, reqs, i) == BitAnd1Shl(reqs.memory_type_bits, i) # 0

\* the closure of `find`: main.rs:1244-1248
Suitable(mem, props, reqs, i) ==
    /\ BitAnd1Shl(reqs.memory_type_bits, i) # 0
    /\ props \subseteq mem.memory_types[i + 1].property_flags

\* (i..memory_type_count).find(closure)
RECURSIVE FindMemoryType(_, _, _, _)
FindMemoryType(mem, props, reqs, i) ==
    IF i >= mem.memory_type_count THEN NoValue
    ELSE IF Suitable(mem, props, reqs, i) THEN <<i>>
    ELSE FindMemoryType(mem, props, reqs, i + 1)

\* .ok_or_else(|| anyhow!("Failed to find suitable memory type."))
get_memory_type_index(mem, props, reqs) ==
    LET found == FindMemoryType(mem, props, reqs, 0)
    IN  IF found = NoValue THEN Err("Failed to find suitable memory type.")
        ELSE Ok(found[1])

InitMemType ==
    /\ NotCreated
    /\ FormatIdle
    /\ ExtentIdle
    /\ TransferIdle
    /\ SwapchainIdle
    /\ LifetimeIdle
    /\ PlacementIdle
    /\ ShaderIdle
    /\ PickIdle
    /\ RecordIdle
    /\ UploadIdle
    /\ ShutdownIdle
    /\ memory \in MemoryProperties
    /\ properties \in SUBSET MemoryPropertyFlags
    /\ requirements \in [memory_type_bits : MemoryTypeBits]
    /\ memory_type_index = NoValue

CallGetMemoryTypeIndex ==
    /\ memory_type_index = NoValue
    /\ memory_type_index' = get_memory_type_index(memory, properties, requirements)
    /\ UNCHANGED <<renderer, create_vars, memory, properties, requirements,
                   format_vars, extent_vars, transfer_vars>>

NextMemType == CallGetMemoryTypeIndex

SpecMemType == InitMemType /\ [][NextMemType]_vars

\* the indices the contract allows: below memory_type_count, bit set in the
\* requirement bitmask, property flags containing every requested flag
Eligible ==
    {i \in 0..(memory.memory_type_count - 1) :
        /\ requirements.memory_type_bits % 2^(i + 1) >= 2^i
        /\ \A flag \in properties : flag \in memory.memory_types[i + 1].property_flags}

\* C18: get_memory_type_index returns the lowest eligible index, returns an error
\* exactly when no index is eligible, and for bitmask {1,3} with types
\* [DEVICE_LOCAL, HOST_VISIBLE|HOST_COHERENT] and request HOST_VISIBLE|HOST_COHERENT
\* returns 1.
C18_LowestSuitableIndex ==
    memory_type_index # NoValue =>
        /\ (memory_type_index[1] = "Err") <=> (Eligible = {})
        /\ memory_type_index[1] = "Ok" =>
              /\ memory_type_index[2] \in Eligible
              /\ \A i \in Eligible : memory_type_index[2] <= i
        /\ (/\ requirements.memory_type_bits = 2^1 + 2^3
            /\ memory.memory_type_count = 2
            /\ memory.memory_types[1].property_flags = {"DEVICE_LOCAL"}
            /\ memory.memory_types[2].property_flags = {"HOST_VISIBLE", "HOST_COHERENT"}
            /\ properties = {"HOST_VISIBLE", "HOST_COHERENT"})
              => memory_type_index = Ok(1)

\* C18 witness: type 0 has its bit set but lacks a requested flag, type 1 is chosen.
C18_Witness ==
    /\ memory_type_index = Ok(1)
    /\ requirements.memory_type_bits = 3
    /\ memory.memory_types[1].property_flags = {"DEVICE_LOCAL"}
    /\ memory.memory_types[2].property_flags = {"HOST_VISIBLE", "HOST_COHERENT"}
    /\ properties = {"HOST_VISIBLE", "HOST_COHERENT"}

-----------------------------------------------------------------------------
(* get_swapchain_surface_format: swpachain.rs:130-141 *)

\* longest format list explored
MaxFormats == 3

SurfaceFormats ==
    [format : {"B8G8R8A8_SRGB", "B8G8R8A8_UNORM", "R8G8B8A8_SRGB"},
     color_space : {"SRGB_NONLINEAR", "DISPLAY_P3_NONLINEAR"}]

\* the lists a surface can report: the device is only picked when its list is not
\* empty (device.rs:92)
FormatLists == UNION {[1..n -> SurfaceFormats] : n \in 1..MaxFormats}

\* faulty variant: the colour space is not looked at
IsPreferredFormat_FormatOnly(f) == f.format = "B8G8R8A8_SRGB"

\* the closure of `find`: swpachain.rs:136-139
IsPreferredFormat(f) ==
    /\ f.format = "B8G8R8A8_SRGB"
    /\ f.color_space = "SRGB_NONLINEAR"

\* formats.iter().cloned().find(closure), from Vec index k - 1 on
RECURSIVE FindFormat(_, _)
FindFormat(list, k) ==
    IF k > Len(list) THEN NoValue
    ELSE IF IsPreferredFormat(list[k]) THEN <<list[k]>>
    ELSE FindFormat(list, k + 1)

\* .unwrap_or_else(|| formats[0])
get_swapchain_surface_format(list) ==
    LET found == FindFormat(list, 1)
    IN  IF found = NoValue THEN list[1] ELSE found[1]

InitFormat ==
    /\ NotCreated
    /\ MemTypeIdle
    /\ ExtentIdle
    /\ TransferIdle
    /\ SwapchainIdle
    /\ LifetimeIdle
    /\ PlacementIdle
    /\ ShaderIdle
    /\ PickIdle
    /\ RecordIdle
    /\ UploadIdle
    /\ ShutdownIdle
    /\ formats \in FormatLists
    /\ surface_format = NoValue

CallGetSwapchainSurfaceFormat ==
    /\ surface_format = NoValue
    /\ surface_format' = get_swapchain_surface_format(formats)
    /\ UNCHANGED <<renderer, create_vars, memtype_vars, extent_vars, transfer_vars, formats>>

NextFormat == CallGetSwapchainSurfaceFormat

SpecFormat == InitFormat /\ [][NextFormat]_vars

\* positions of the B8G8R8A8_SRGB / SRGB_NONLINEAR entries of the list
PreferredAt ==
    {k \in 1..Len(formats) :
        formats[k] = [format |-> "B8G8R8A8_SRGB", color_space |-> "SRGB_NONLINEAR"]}

\* C19: get_swapchain_surface_format returns the first B8G8R8A8_SRGB /
\* SRGB_NONLINEAR entry when the list has one, at any position, and the first entry
\* of the list otherwise; the result is an element of the list.
C19_PreferredFormatOrFirst ==
    surface_format # NoValue =>
        /\ \E k \in 1..Len(formats) : formats[k] = surface_format
        /\ PreferredAt # {} =>
              \E k \in PreferredAt :
                  /\ surface_format = formats[k]
                  /\ \A j \in PreferredAt : k <= j
        /\ PreferredAt = {} => surface_format = formats[1]

\* C19 witness: the preferred entry is last in the list, after an entry with the
\* format but another colour space and an entry with the colour space but another
\* format, and it is the one returned.
C19_Witness ==
    /\ surface_format = [format |-> "B8G8R8A8_SRGB", color_space |-> "SRGB_NONLINEAR"]
    /\ Len(formats) = 3
    /\ formats[1] = [format |-> "B8G8R8A8_SRGB", color_space |-> "DISPLAY_P3_NONLINEAR"]
    /\ formats[2] = [format |-> "B8G8R8A8_UNORM", color_space |-> "SRGB_NONLINEAR"]
    /\ formats[3] = surface_format

-----------------------------------------------------------------------------
(* get_swapchain_extent: swpachain.rs:153-175 *)

\* u32::max_value(), the value no real extent has; it is only compared for equality
\* and is written here as the largest integer the model checker represents
U32Max == 2147483647

\* largest width or height explored
MaxAxis == 2

Axis == 0..MaxAxis

Extents == [width : Axis, height : Axis]

\* what the surface reports: current_extent is a size, or (U32Max, U32Max) when the
\* surface takes its size from the swapchain; min_image_extent <= max_image_extent
SurfaceCapabilities ==
    {c \in [current_extent : Extents \cup {[width |-> U32Max, height |-> U32Max]},
            min_image_extent : Extents,
            max_image_extent : Extents] :
        /\ c.min_image_extent.width <= c.max_image_extent.width
        /\ c.min_image_extent.height <= c.max_image_extent.height}

\* u32::min, u32::max
MinU32(a, b) == IF a <= b THEN a ELSE b

MaxU32(a, b) == IF a >= b THEN a ELSE b

\* faulty variant: the lower bound is not applied
Clamp_UpperOnly(min, max, v) == MinU32(max, v)

\* let clamp = |min: u32, max: u32, v: u32| min.max(max.min(v));
Clamp(min, max, v) == MaxU32(min, MinU32(max, v))

get_swapchain_extent(window_size, caps) ==
    IF caps.current_extent.width # U32Max
    THEN caps.current_extent
    ELSE [width |-> Clamp(caps.min_image_extent.width,
                          caps.max_image_extent.width, window_size.width),
          height |-> Clamp(caps.min_image_extent.height,
                           caps.max_image_extent.height, window_size.height)]

InitExtent ==
    /\ NotCreated
    /\ MemTypeIdle
    /\ FormatIdle
    /\ TransferIdle
    /\ SwapchainIdle
    /\ LifetimeIdle
    /\ PlacementIdle
    /\ ShaderIdle
    /\ PickIdle
    /\ RecordIdle
    /\ UploadIdle
    /\ ShutdownIdle
    /\ capabilities \in SurfaceCapabilities
    /\ size \in Extents
    /\ extent = NoValue

CallGetSwapchainExtent ==
    /\ extent = NoValue
    /\ extent' = get_swapchain_extent(size, capabilities)
    /\ UNCHANGED <<renderer, create_vars, memtype_vars, format_vars, transfer_vars,
                   capabilities, size>>

NextExtent == CallGetSwapchainExtent

SpecExtent == InitExtent /\ [][NextExtent]_vars

\* the surface reports a fixed current extent
FixedExtent ==
    capabilities.current_extent # [width |-> U32Max, height |-> U32Max]

\* v clamped into [lo, hi]
ClampedInto(result, lo, hi, v) ==
    /\ lo <= result
    /\ result <= hi
    /\ (lo <= v /\ v <= hi) => result = v
    /\ v < lo => result = lo
    /\ v > hi => result = hi

\* C20: get_swapchain_extent returns the current extent when the surface reports a
\* fixed one, and otherwise, on each axis, the window size clamped into
\* [min_image_extent, max_image_extent].
C20_CurrentExtentOrClampedWindowSize ==
    extent # NoValue =>
        /\ FixedExtent => extent = capabilities.current_extent
        /\ ~FixedExtent =>
              /\ ClampedInto(extent.width, capabilities.min_image_extent.width,
                             capabilities.max_image_extent.width, size.width)
              /\ ClampedInto(extent.height, capabilities.min_image_extent.height,
                             capabilities.max_image_extent.height, size.height)

\* C20 witness: no fixed extent, the window is narrower than the minimum and taller
\* than the maximum: the width is raised and the height lowered.
C20_Witness ==
    /\ extent # NoValue
    /\ ~FixedExtent
    /\ size.width < capabilities.min_image_extent.width
    /\ size.height > capabilities.max_image_extent.height
    /\ extent.width = capabilities.min_image_extent.width
    /\ extent.height = capabilities.max_image_extent.height

-----------------------------------------------------------------------------
(* One-shot transfers: begin_single_time_commands and end_single_time_commands *)
(* (commandbuffer.rs:7-43), called by copy_buffer (buffers.rs:39-54) and by    *)
(* transition_image_layout (main.rs:1371-1435)                                 *)

\* one-shot operations explored in one run
MaxTransfers == 2

ImageLayouts == {"UNDEFINED", "TRANSFER_DST_OPTIMAL", "SHADER_READ_ONLY_OPTIMAL",
                 "GENERAL"}

Operations ==
    {[name |-> "copy_buffer"]}
        \cup [name : {"transition_image_layout"},
              old_layout : ImageLayouts, new_layout : ImageLayouts]

\* faulty variant: every pair of layouts is accepted
SupportedTransition_Any(old_layout, new_layout) == TRUE

\* the arms of `match (old_layout, new_layout)` that yield barrier masks:
\* main.rs:1384-1399
SupportedTransition(old_layout, new_layout) ==
    \/ old_layout = "UNDEFINED" /\ new_layout = "TRANSFER_DST_OPTIMAL"
    \/ old_layout = "TRANSFER_DST_OPTIMAL" /\ new_layout = "SHADER_READ_ONLY_OPTIMAL"

\* the command the caller records: buffers.rs:49, main.rs:1356-1362, main.rs:1423-1431
RecordedCommand(op) ==
    IF op.name = "copy_buffer" THEN "cmd_copy_buffer"
    ELSE IF op.name = "copy_buffer_to_image" THEN "cmd_copy_buffer_to_image"
    ELSE "cmd_pipeline_barrier"

\* faulty variant: queue_wait_idle returns while the queue has work
QueueIdle_NoWait == TRUE

\* queue_wait_idle returns once the queue has executed everything submitted to it
QueueIdle == graphics_queue = <<>>

InitTransfer ==
    /\ NotCreated
    /\ MemTypeIdle
    /\ FormatIdle
    /\ ExtentIdle
    /\ TransferIdle
    /\ SwapchainIdle
    /\ LifetimeIdle
    /\ PlacementIdle
    /\ ShaderIdle
    /\ PickIdle
    /\ RecordIdle
    /\ UploadIdle
    /\ ShutdownIdle

\* a device call made with `?` failed: the operation returns the error at once
TransferFails(message) ==
    /\ transfer_pc' = "failed"
    /\ transfer_result' = Err(message)

\* a caller starts: copy_buffer goes straight to begin_single_time_commands,
\* transition_image_layout first matches its layouts
CallTransfer ==
    /\ transfer_pc = "idle"
    /\ transfers < MaxTransfers
    /\ \E op \in Operations :
        /\ operation' = op
        /\ transfer_pc' = IF op.name = "transition_image_layout"
                          THEN "match_layouts" ELSE "allocate_command_buffers"
    /\ command_buffer' = "none"
    /\ device_calls' = <<>>
    /\ transfer_result' = NoValue
    /\ UNCHANGED <<renderer, create_vars, memtype_vars, format_vars, extent_vars,
                   graphics_queue, transfers, executed>>

\* main.rs:1379-1401
MatchLayouts ==
    /\ transfer_pc = "match_layouts"
    /\ IF SupportedTransition(operation.old_layout, operation.new_layout)
       THEN /\ transfer_pc' = "allocate_command_buffers"
            /\ transfer_result' = transfer_result
       ELSE TransferFails("Unsupported image layout transition :'(")
    /\ UNCHANGED <<renderer, create_vars, memtype_vars, format_vars, extent_vars, operation,
                   command_buffer, graphics_queue, device_calls, transfers, executed>>

\* commandbuffer.rs:11-16
AllocateCommandBuffers ==
    /\ transfer_pc = "allocate_command_buffers"
    /\ \/ /\ command_buffer' = "initial"
          /\ device_calls' = Append(device_calls, "allocate_command_buffers")
          /\ transfer_pc' = "begin_command_buffer"
          /\ transfer_result' = transfer_result
       \/ /\ TransferFails("allocate_command_buffers")
          /\ UNCHANGED <<command_buffer, device_calls>>
    /\ UNCHANGED <<renderer, create_vars, memtype_vars, format_vars, extent_vars, operation,
                   graphics_queue, transfers, executed>>

\* commandbuffer.rs:18-21
BeginCommandBuffer ==
    /\ transfer_pc = "begin_command_buffer"
    /\ \/ /\ command_buffer' = "recording"
          /\ device_calls' = Append(device_calls, "begin_command_buffer:ONE_TIME_SUBMIT")
          /\ transfer_pc' = "record"
          /\ transfer_result' = transfer_result
       \/ /\ TransferFails("begin_command_buffer")
          /\ UNCHANGED <<command_buffer, device_calls>>
    /\ UNCHANGED <<renderer, create_vars, memtype_vars, format_vars, extent_vars, operation,
                   graphics_queue, transfers, executed>>

\* buffers.rs:48-49, main.rs:1405-1431: the cmd_* calls return nothing
RecordCommand ==
    /\ transfer_pc = "record"
    /\ device_calls' = Append(device_calls, RecordedCommand(operation))
    /\ transfer_pc' = "end_command_buffer"
    /\ UNCHANGED <<renderer, create_vars, memtype_vars, format_vars, extent_vars, operation,
                   command_buffer, graphics_queue, transfer_result, transfers, executed>>

\* commandbuffer.rs:31
EndCommandBuffer ==
    /\ transfer_pc = "end_command_buffer"
    /\ \/ /\ command_buffer' = "executable"
          /\ device_calls' = Append(device_calls, "end_command_buffer")
          /\ transfer_pc' = "queue_submit"
          /\ transfer_result' = transfer_result
       \/ /\ TransferFails("end_command_buffer")
          /\ UNCHANGED <<command_buffer, device_calls>>
    /\ UNCHANGED <<renderer, create_vars, memtype_vars, format_vars, extent_vars, operation,
                   graphics_queue, transfers, executed>>

\* commandbuffer.rs:33-37: submitted to data.graphics_queue with no fence
SubmitTransfer ==
    /\ transfer_pc = "queue_submit"
    /\ \/ /\ graphics_queue' = Append(graphics_queue, RecordedCommand(operation))
          /\ command_buffer' = "pending"
          /\ device_calls' = Append(device_calls, "queue_submit:graphics_queue")
          /\ transfer_pc' = "queue_wait_idle"
          /\ transfer_result' = transfer_result
       \/ /\ TransferFails("queue_submit")
          /\ UNCHANGED <<graphics_queue, command_buffer, device_calls>>
    /\ UNCHANGED <<renderer, create_vars, memtype_vars, format_vars, extent_vars, operation,
                   transfers, executed>>

\* the graphics queue executes the oldest submitted command buffer; a buffer begun
\* with ONE_TIME_SUBMIT is invalid once it has executed
ExecuteTransfer ==
    /\ graphics_queue # <<>>
    /\ graphics_queue' = Tail(graphics_queue)
    /\ executed' = executed + 1
    /\ command_buffer' = IF command_buffer = "pending" THEN "invalid" ELSE command_buffer
    /\ UNCHANGED <<renderer, create_vars, memtype_vars, format_vars, extent_vars, operation,
                   device_calls, transfer_pc, transfer_result, transfers>>

\* commandbuffer.rs:38
QueueWaitIdle ==
    /\ transfer_pc = "queue_wait_idle"
    /\ \/ /\ QueueIdle
          /\ device_calls' = Append(device_calls, "queue_wait_idle")
          /\ transfer_pc' = "free_command_buffers"
          /\ transfer_result' = transfer_result
       \/ /\ TransferFails("queue_wait_idle")
          /\ UNCHANGED device_calls
    /\ UNCHANGED <<renderer, create_vars, memtype_vars, format_vars, extent_vars, operation,
                   command_buffer, graphics_queue, transfers, executed>>

\* commandbuffer.rs:40-42: free, then Ok(()) through the caller's `?` and Ok(())
FreeCommandBuffers ==
    /\ transfer_pc = "free_command_buffers"
    /\ command_buffer' = "freed"
    /\ device_calls' = Append(device_calls, "free_command_buffers")
    /\ transfer_pc' = "idle"
    /\ transfer_result' = Ok("()")
    /\ transfers' = transfers + 1
    /\ UNCHANGED <<renderer, create_vars, memtype_vars, format_vars, extent_vars, operation,
                   graphics_queue, executed>>

NextTransfer ==
    \/ CallTransfer
    \/ MatchLayouts
    \/ AllocateCommandBuffers
    \/ BeginCommandBuffer
    \/ RecordCommand
    \/ EndCommandBuffer
    \/ SubmitTransfer
    \/ ExecuteTransfer
    \/ QueueWaitIdle
    \/ FreeCommandBuffers

SpecTransfer == InitTransfer /\ [][NextTransfer]_vars

\* the device calls of a complete one-shot transfer, in the order of the contract
OneShotOrder ==
    <<"allocate_command_buffers", "begin_command_buffer:ONE_TIME_SUBMIT",
      RecordedCommand(operation), "end_command_buffer",
      "queue_submit:graphics_queue", "queue_wait_idle", "free_command_buffers">>

IsPrefix(s, t) == Len(s) <= Len(t) /\ s = SubSeq(t, 1, Len(s))

Returned == transfer_pc \in {"idle", "failed"} /\ transfer_result # NoValue

\* C16: the device calls of a one-shot transfer come in the order allocate, begin
\* (one-time submit), record, end, submit to the graphics queue, queue-wait-idle,
\* free; the command buffer is freed only after the wait returned, with nothing left
\* on the queue, and the operation returns Ok only after all seven calls, when the
\* GPU has executed the transfer.
C16_OneShotOrderAndWait ==
    operation # NoValue =>
        /\ IsPrefix(device_calls, OneShotOrder)
        /\ command_buffer = "freed" =>
              /\ Has(device_calls, "queue_wait_idle")
              /\ graphics_queue = <<>>
        /\ (Returned /\ transfer_result[1] = "Ok") =>
              /\ device_calls = OneShotOrder
              /\ graphics_queue = <<>>
              /\ executed = transfers

\* C16 witness: a copy_buffer returned Ok after an earlier operation, and the GPU
\* has executed both transfers.
C16_Witness ==
    /\ Returned
    /\ transfer_result[1] = "Ok"
    /\ operation = [name |-> "copy_buffer"]
    /\ Has(device_calls, "cmd_copy_buffer")
    /\ command_buffer = "freed"
    /\ transfers = 2
    /\ executed = 2

\* the fixed table of (old_layout, new_layout) pairs
LayoutTable ==
    {<<"UNDEFINED", "TRANSFER_DST_OPTIMAL">>,
     <<"TRANSFER_DST_OPTIMAL", "SHADER_READ_ONLY_OPTIMAL">>}

IsTransition == operation # NoValue /\ operation.name = "transition_image_layout"

\* C17: transition_image_layout returns Ok only for the pairs of its table; for any
\* other pair it returns an error without allocating, recording or submitting a
\* command buffer, and the queue and the count of executed transfers stay as before.
C17_UnlistedPairFailsWithoutEffect ==
    (IsTransition /\ transfer_pc # "match_layouts") =>
        /\ (Returned /\ transfer_result[1] = "Ok") =>
              <<operation.old_layout, operation.new_layout>> \in LayoutTable
        /\ <<operation.old_layout, operation.new_layout>> \notin LayoutTable =>
              /\ transfer_pc = "failed"
              /\ transfer_result[1] = "Err"
              /\ device_calls = <<>>
              /\ command_buffer = "none"
              /\ graphics_queue = <<>>
              /\ executed = transfers

\* C17 witness: after one successful operation, a transition from UNDEFINED to
\* SHADER_READ_ONLY_OPTIMAL has failed and no device call was made.
C17_Witness ==
    /\ IsTransition
    /\ operation.old_layout = "UNDEFINED"
    /\ operation.new_layout = "SHADER_READ_ONLY_OPTIMAL"
    /\ transfer_pc = "failed"
    /\ transfer_result[1] = "Err"
    /\ device_calls = <<>>
    /\ transfers = 1
    /\ executed = 1

-----------------------------------------------------------------------------
(* create_swapchain: the image count (swpachain.rs:62-67) and                *)
(* get_swapchain_presentation_mode (swpachain.rs:143-151)                    *)

\* width in bits of the u32 image counts explored; sums are taken modulo 2^CountBits
CountBits == 3

CountMax == 2^CountBits - 1

\* longest list of present modes explored
MaxPresentModes == 2

PresentModes == {"IMMEDIATE", "MAILBOX", "FIFO", "FIFO_RELAXED"}

\* the lists a surface can report: the device is only picked when its list is not
\* empty (device.rs:92)
PresentModeLists == UNION {[1..n -> PresentModes] : n \in 1..MaxPresentModes}

\* how the crate is built: overflow checks on (debug) or off (release)
Builds == {"debug", "release"}

\* a + b on u32: past the largest value a debug build panics, a release build wraps
AddU32(a, b, build) ==
    IF a + b <= CountMax THEN Ok(a + b)
    ELSE IF build = "debug" THEN <<"panic", "attempt to add with overflow">>
    ELSE Ok((a + b) % 2^CountBits)

\* faulty variant: max_image_count is not looked at
ImageCount_NoClamp(caps, build) == AddU32(caps.min_image_count, 1, build)

\* swpachain.rs:62-67
ImageCount(caps, build) ==
    LET sum == AddU32(caps.min_image_count, 1, build)
    IN  IF sum[1] # "Ok" THEN sum
        ELSE IF caps.max_image_count # 0 /\ sum[2] > caps.max_image_count
        THEN Ok(caps.max_image_count)
        ELSE sum

\* faulty variant: FIFO is the preferred mode
IsPreferredMode_Fifo(m) == m = "FIFO"

\* the closure of `find`: swpachain.rs:149
IsPreferredMode(m) == m = "MAILBOX"

\* presentation_mode.iter().cloned().find(closure), from Vec index k - 1 on
RECURSIVE FindMode(_, _)
FindMode(list, k) ==
    IF k > Len(list) THEN NoValue
    ELSE IF IsPreferredMode(list[k]) THEN <<list[k]>>
    ELSE FindMode(list, k + 1)

\* .unwrap_or(vk::PresentModeKHR::FIFO)
get_swapchain_presentation_mode(list) ==
    LET found == FindMode(list, 1)
    IN  IF found = NoValue THEN "FIFO" ELSE found[1]

InitSwapchain ==
    /\ NotCreated
    /\ MemTypeIdle
    /\ FormatIdle
    /\ ExtentIdle
    /\ TransferIdle
    /\ LifetimeIdle
    /\ PlacementIdle
    /\ ShaderIdle
    /\ PickIdle
    /\ RecordIdle
    /\ UploadIdle
    /\ ShutdownIdle
    /\ support \in [capabilities : [min_image_count : 0..CountMax,
                                    max_image_count : 0..CountMax],
                    presentation_modes : PresentModeLists]
    /\ image_count = NoValue
    /\ presentation_mode = NoMode

CallGetSwapchainPresentationMode ==
    /\ presentation_mode = NoMode
    /\ presentation_mode' = get_swapchain_presentation_mode(support.presentation_modes)
    /\ UNCHANGED <<support, image_count, renderer, memtype_vars, format_vars,
                   extent_vars, transfer_vars, lifetime_vars, placement_vars,
                   shader_vars, pick_vars, record_vars, upload_vars,
                   shutdown_vars>>

ComputeImageCount ==
    /\ image_count = NoValue
    /\ \E build \in Builds :
        image_count' = ImageCount(support.capabilities, build)
    /\ UNCHANGED <<support, presentation_mode, renderer, memtype_vars,
                   format_vars, extent_vars, transfer_vars, lifetime_vars,
                   placement_vars, shader_vars, pick_vars, record_vars,
                   upload_vars, shutdown_vars>>

SpecSwapchain ==
    InitSwapchain /\ [][CallGetSwapchainPresentationMode \/ ComputeImageCount]_vars

\* the count the contract describes, on unbounded integers
ContractCount ==
    LET lo == support.capabilities.min_image_count
        hi == support.capabilities.max_image_count
    IN  IF hi # 0 /\ lo + 1 > hi THEN hi ELSE lo + 1

CountInRange ==
    /\ image_count[1] = "Ok"
    /\ image_count[2] = ContractCount
    /\ image_count[2] >= support.capabilities.min_image_count
    /\ support.capabilities.max_image_count # 0
          => image_count[2] <= support.capabilities.max_image_count

\* capabilities as a surface reports them: min_image_count is not the largest u32,
\* and a nonzero max_image_count is not below min_image_count
ReportedCounts ==
    /\ support.capabilities.min_image_count < CountMax
    /\ \/ support.capabilities.max_image_count = 0
       \/ support.capabilities.min_image_count <= support.capabilities.max_image_count

\* C21 as claimed: for all values of min_image_count and max_image_count the image
\* count is min_image_count + 1, or max_image_count when that is nonzero and
\* smaller, and lies between min_image_count and a nonzero max_image_count.
C21_CountInRangeForAllValues == image_count # NoValue => CountInRange

\* C21 amended: the same, for capabilities whose min_image_count is below the
\* largest u32 and whose nonzero max_image_count is at least min_image_count.
C21_CountInRangeForReportedValues ==
    (image_count # NoValue /\ ReportedCounts) => CountInRange

\* C21 witness: min_image_count + 1 exceeds a nonzero max_image_count and the count
\* is max_image_count.
C21_Witness ==
    /\ image_count # NoValue
    /\ ReportedCounts
    /\ support.capabilities.min_image_count = 2
    /\ support.capabilities.max_image_count = 2
    /\ image_count = Ok(2)

\* C22: get_swapchain_presentation_mode returns MAILBOX when the list of supported
\* modes contains it, and FIFO in every other case.
C22_MailboxOrFifo ==
    presentation_mode # NoMode =>
        IF \E k \in 1..Len(support.presentation_modes) :
               support.presentation_modes[k] = "MAILBOX"
        THEN presentation_mode = "MAILBOX"
        ELSE presentation_mode = "FIFO"

\* C22 witness: MAILBOX is the last entry, after FIFO, and is returned.
C22_Witness ==
    /\ presentation_mode = "MAILBOX"
    /\ support.presentation_modes = <<"FIFO", "MAILBOX">>

-----------------------------------------------------------------------------
(* Lifetime of the Vulkan handles: App::create, render, recreate_swapchain, *)
(* App::destroy.  A handle is <<kind, a, b>>: the objects of the swapchain   *)
(* group carry the number of the swapchain they were built for and their    *)
(* image, a command buffer carries its pool and its rank in the pool.       *)

\* most command buffers allocated from one pool; it bounds the recreations too,
\* each of which allocates a primary buffer from the pool of image 0
MaxPoolBuffers == 4

Handles(kind, g, n) == [i \in 1..n |-> <<kind, g, i>>]

\* the pool a command buffer or a descriptor set is allocated from
PoolOf(h) ==
    IF h[1] = "command_buffer" THEN <<"command_pool", 0, h[2]>>
    ELSE IF h[1] = "descriptor_set" THEN <<"descriptor_pool", h[2], 0>>
    ELSE NoValue

Children_None(pool, handles) == {}

\* what destroying a pool frees with it
Children(pool, handles) == {h \in handles : PoolOf(h) = pool}

\* the vkDestroy*/vkFree* calls of list, in order, on the handle state st: a call
\* on a live handle releases it, and with a pool what was allocated from it; a
\* call on a handle that is not live (never created, or released by an earlier
\* call of the list, alone or with its pool) is a fault
DestroyAll(st, list) ==
    LET called == {list[k] : k \in DOMAIN list}
        gone == UNION {({h} \cup Children(h, st.live)) \cap st.live : h \in called}
        again == {list[k] : k \in {n \in DOMAIN list :
                      \E m \in 1..(n - 1) :
                          list[m] = list[n] \/ list[m] = PoolOf(list[n])}}
    IN  [live |-> st.live \ gone,
         released |-> st.released \cup gone,
         faults |-> st.faults \cup (called \ st.live) \cup again]

SeqRange(list) == {list[i] : i \in DOMAIN list}

\* the image views a framebuffer is created with
Attachments(f) ==
    { <<"color_image_view", f[2], 0>>,
      <<"depth_image_view", f[2], 0>>,
      <<"swapchain_image_view", f[2], f[3]>> }

\* the handles an object was created from
Consumed(h) ==
    IF h[1] = "framebuffer" THEN Attachments(h)
    ELSE IF h[1] = "pipeline"
         THEN {<<"render_pass", h[2], 0>>, <<"pipeline_layout", h[2], 0>>}
    ELSE IF h[1] = "swapchain_image_view" THEN {<<"swapchain", h[2], 0>>}
    ELSE {}

DestroySwapchainCalls_SwapchainFirst(d) ==
    <<d.swapchain, d.color_image_view, d.color_image_memory, d.color_image,
      d.depth_image_view, d.depth_image_memory, d.depth_image,
      d.descriptor_pool>>
    \o d.uniform_buffers \o d.uniform_buffers_memory \o d.framebuffers
    \o <<d.pipeline, d.pipeline_layout, d.render_pass>>
    \o d.swapchain_image_views

\* destroy_swapchain: its destroy calls, in order
DestroySwapchainCalls(d) ==
    <<d.color_image_view, d.color_image_memory, d.color_image,
      d.depth_image_view, d.depth_image_memory, d.depth_image,
      d.descriptor_pool>>
    \o d.uniform_buffers \o d.uniform_buffers_memory \o d.framebuffers
    \o <<d.pipeline, d.pipeline_layout, d.render_pass>>
    \o d.swapchain_image_views
    \o <<d.swapchain>>

\* App::destroy after destroy_swapchain: its destroy calls, in order
DestroyCalls(d) ==
    d.command_pools
    \o <<d.texture_sampler, d.texture_image_view, d.texture_image,
         d.texture_image_memory, d.descriptor_set_layout,
         d.index_buffer, d.index_buffer_memory,
         d.vertex_buffer, d.vertex_buffer_memory>>
    \o d.in_flight_fences \o d.render_finished_semaphores
    \o d.image_available_semaphores
    \o <<d.command_pool, d.logical_device, d.surface>>
    \o (IF d.validation THEN <<d.messenger>> ELSE <<>>)
    \o <<d.instance>>

\* number of command buffers allocated from command_pools[i]
Allocated(handles, i) ==
    Cardinality({h \in handles : h[1] = "command_buffer" /\ h[2] = i})

\* allocate_command_buffers from command_pools[i], count times
Allocate(handles, i, count) ==
    [k \in 1..count |-> <<"command_buffer", i, Allocated(handles, i) + k>>]

\* faulty variant: the descriptor sets of the new pool are pushed behind the old ones
SwapchainFields_SetsPushed(d, g, n) ==
    [d EXCEPT
        !.swapchain = <<"swapchain", g, 0>>,
        !.swapchain_images = n,
        !.swapchain_image_views = Handles("swapchain_image_view", g, n),
        !.render_pass = <<"render_pass", g, 0>>,
        !.pipeline_layout = <<"pipeline_layout", g, 0>>,
        !.pipeline = <<"pipeline", g, 0>>,
        !.color_image = <<"color_image", g, 0>>,
        !.color_image_memory = <<"color_image_memory", g, 0>>,
        !.color_image_view = <<"color_image_view", g, 0>>,
        !.depth_image = <<"depth_image", g, 0>>,
        !.depth_image_memory = <<"depth_image_memory", g, 0>>,
        !.depth_image_view = <<"depth_image_view", g, 0>>,
        !.framebuffers = Handles("framebuffer", g, n),
        !.uniform_buffers = Handles("uniform_buffer", g, n),
        !.uniform_buffers_memory = Handles("uniform_buffer_memory", g, n),
        !.descriptor_pool = <<"descriptor_pool", g, 0>>,
        !.descriptor_sets = @ \o Handles("descriptor_set", g, n)]

\* the fields the swapchain group of swapchain g with n images assigns
SwapchainFields(d, g, n) ==
    [d EXCEPT
        !.swapchain = <<"swapchain", g, 0>>,
        !.swapchain_images = n,
        !.swapchain_image_views = Handles("swapchain_image_view", g, n),
        !.render_pass = <<"render_pass", g, 0>>,
        !.pipeline_layout = <<"pipeline_layout", g, 0>>,
        !.pipeline = <<"pipeline", g, 0>>,
        !.color_image = <<"color_image", g, 0>>,
        !.color_image_memory = <<"color_image_memory", g, 0>>,
        !.color_image_view = <<"color_image_view", g, 0>>,
        !.depth_image = <<"depth_image", g, 0>>,
        !.depth_image_memory = <<"depth_image_memory", g, 0>>,
        !.depth_image_view = <<"depth_image_view", g, 0>>,
        !.framebuffers = Handles("framebuffer", g, n),
        !.uniform_buffers = Handles("uniform_buffer", g, n),
        !.uniform_buffers_memory = Handles("uniform_buffer_memory", g, n),
        !.descriptor_pool = <<"descriptor_pool", g, 0>>,
        !.descriptor_sets = Handles("descriptor_set", g, n)]

\* the handles those fields hold
SwapchainGroup(d) ==
    { d.swapchain, d.render_pass, d.pipeline_layout, d.pipeline,
      d.color_image, d.color_image_memory, d.color_image_view,
      d.depth_image, d.depth_image_memory, d.depth_image_view,
      d.descriptor_pool }
    \cup SeqRange(d.swapchain_image_views) \cup SeqRange(d.framebuffers)
    \cup SeqRange(d.uniform_buffers) \cup SeqRange(d.uniform_buffers_memory)
    \cup SeqRange(d.descriptor_sets)

\* create_command_buffers: one primary buffer from command_pools[i] for
\* every image i that has a pool, pushed to command_buffers
PrimaryBuffers(d, handles) ==
    LET n == IF d.swapchain_images <= Len(d.command_pools)
             THEN d.swapchain_images ELSE Len(d.command_pools)
    IN  [i \in 1..n |-> Allocate(handles, i, 1)[1]]

\* the staging buffer of create_texture_image and its one-shot command buffer
Transient ==
    <<  <<"staging_buffer", 0, 0>>, <<"staging_buffer_memory", 0, 0>>,
        <<"command_buffer", 0, 1>>  >>

\* the fields App::create assigns before the swapchain group
AppFields(n, validation) ==
    [ validation |-> validation,
      instance |-> <<"instance", 0, 0>>,
      messenger |-> <<"messenger", 0, 0>>,
      surface |-> <<"surface", 0, 0>>,
      logical_device |-> <<"device", 0, 0>>,
      command_pool |-> <<"command_pool", 0, 0>>,
      command_pools |-> Handles("command_pool", 0, n),
      texture_image |-> <<"texture_image", 0, 0>>,
      texture_image_memory |-> <<"texture_image_memory", 0, 0>>,
      texture_image_view |-> <<"texture_image_view", 0, 0>>,
      texture_sampler |-> <<"texture_sampler", 0, 0>>,
      descriptor_set_layout |-> <<"descriptor_set_layout", 0, 0>>,
      vertex_buffer |-> <<"vertex_buffer", 0, 0>>,
      vertex_buffer_memory |-> <<"vertex_buffer_memory", 0, 0>>,
      index_buffer |-> <<"index_buffer", 0, 0>>,
      index_buffer_memory |-> <<"index_buffer_memory", 0, 0>>,
      in_flight_fences |-> Handles("fence", 0, MAX_FRAMES_IN_FLIGHT),
      render_finished_semaphores |->
          Handles("render_finished_semaphore", 0, MAX_FRAMES_IN_FLIGHT),
      image_available_semaphores |->
          Handles("image_available_semaphore", 0, MAX_FRAMES_IN_FLIGHT),
      command_buffers |-> <<>>,
      secondary_command_buffers |-> <<>>,
      swapchains |-> 0,
      swapchain |-> NoValue, swapchain_images |-> 0,
      swapchain_image_views |-> <<>>,
      render_pass |-> NoValue, pipeline_layout |-> NoValue,
      pipeline |-> NoValue,
      color_image |-> NoValue, color_image_memory |-> NoValue,
      color_image_view |-> NoValue,
      depth_image |-> NoValue, depth_image_memory |-> NoValue,
      depth_image_view |-> NoValue,
      framebuffers |-> <<>>, uniform_buffers |-> <<>>,
      uniform_buffers_memory |-> <<>>,
      descriptor_pool |-> NoValue, descriptor_sets |-> <<>> ]

\* the handles those fields hold
AppGroup(d) ==
    { d.instance, d.surface, d.logical_device, d.command_pool,
      d.texture_image, d.texture_image_memory, d.texture_image_view,
      d.texture_sampler, d.descriptor_set_layout,
      d.vertex_buffer, d.vertex_buffer_memory,
      d.index_buffer, d.index_buffer_memory }
    \cup (IF d.validation THEN {d.messenger} ELSE {})
    \cup SeqRange(d.command_pools) \cup SeqRange(d.in_flight_fences)
    \cup SeqRange(d.render_finished_semaphores)
    \cup SeqRange(d.image_available_semaphores)

\* the swapchain group and the command buffers, as App::create and
\* recreate_swapchain build them for n images
BuildSwapchain(d, st, n) ==
    LET d1 == SwapchainFields([d EXCEPT !.swapchains = @ + 1],
                              d.swapchains + 1, n)
        st1 == [st EXCEPT !.live = @ \cup SwapchainGroup(d1)]
        primary == PrimaryBuffers(d1, st1.live)
    IN  [ data |-> [d1 EXCEPT
                      !.command_buffers = @ \o primary,
                      !.secondary_command_buffers =
                          IF n <= Len(d.command_pools)
                          THEN [i \in 1..n |-> <<>>] ELSE @],
          st |-> [st1 EXCEPT !.live = @ \cup SeqRange(primary)],
          ok |-> n <= Len(d.command_pools) ]

\* update_secondary_command_buffer for the models 0..m-1 of image i
FrameSecondaries(d, handles, i, m) ==
    LET scb == d.secondary_command_buffers
        r == [j \in 1..i |-> IF j <= Len(scb) THEN scb[j] ELSE <<>>]
        missing == IF m > Len(r[i]) THEN m - Len(r[i]) ELSE 0
    IN  [r EXCEPT ![i] = @ \o Allocate(handles, i, missing)]

\* the handles update_command_buffer, update_secondary_command_buffer and
\* update_uniform_buffer hand to the device for image i and m models
References(d, i, m) ==
    { d.command_pools[i], d.command_buffers[i],
      d.render_pass, d.framebuffers[i], d.pipeline, d.pipeline_layout,
      d.vertex_buffer, d.index_buffer, d.descriptor_sets[i],
      d.uniform_buffers_memory[i] }
    \cup {d.secondary_command_buffers[i][k] : k \in 1..m}

InitLifetime ==
    /\ NotCreated
    /\ MemTypeIdle
    /\ FormatIdle
    /\ ExtentIdle
    /\ TransferIdle
    /\ SwapchainIdle
    /\ PlacementIdle
    /\ ShaderIdle
    /\ PickIdle
    /\ LifetimeIdle
    /\ RecordIdle
    /\ UploadIdle
    /\ ShutdownIdle

\* App::create, for a swapchain of n images
AppCreate ==
    /\ lifecycle = "none"
    /\ \E n \in 1..MaxImages, validation \in BOOLEAN :
        \E d0 \in {AppFields(n, validation)} :
        \E st0 \in {DestroyAll([live |-> AppGroup(d0) \cup SeqRange(Transient),
                                released |-> {}, faults |-> {}], Transient)} :
        \E b \in {BuildSwapchain(d0, st0, n)} :
            /\ data' = b.data
            /\ live' = b.st.live
            /\ released' = b.st.released
            /\ faults' = b.st.faults
    /\ lifecycle' = "running"
    /\ referenced' = {}
    /\ UNCHANGED <<calls, renderer, memtype_vars, format_vars, extent_vars,
                   transfer_vars, swapchain_vars, placement_vars, shader_vars,
                   pick_vars, record_vars, upload_vars, shutdown_vars>>

\* render: the frame of image i records the models of the App and is submitted
Frame ==
    /\ lifecycle = "running"
    /\ \E i \in 1..data.swapchain_images :
        \E scb \in {FrameSecondaries(data, live, i, InitialModels)} :
            /\ Allocated(live \cup SeqRange(scb[i]), i) <= MaxPoolBuffers
            /\ data' = [data EXCEPT !.secondary_command_buffers = scb]
            /\ live' = live \cup SeqRange(scb[i])
            /\ referenced' =
                  References([data EXCEPT !.secondary_command_buffers = scb],
                             i, InitialModels)
    /\ UNCHANGED <<lifecycle, released, faults, calls, renderer, memtype_vars,
                   format_vars, extent_vars, transfer_vars, swapchain_vars,
                   placement_vars, shader_vars, pick_vars, record_vars,
                   upload_vars, shutdown_vars>>

\* recreate_swapchain, the surface now giving n images; its device_wait_idle
\* returns when nothing submitted is left executing
Recreate ==
    /\ lifecycle = "running"
    /\ \E n \in 1..MaxImages :
        \E list \in {DestroySwapchainCalls(data)} :
        \E st0 \in {DestroyAll([live |-> live, released |-> released,
                                faults |-> faults], list)} :
        \E b \in {BuildSwapchain(data, st0, n)} :
            /\ \A i \in 1..n : Allocated(b.st.live, i) <= MaxPoolBuffers
            /\ calls' = list
            /\ data' = b.data
            /\ live' = b.st.live
            /\ released' = b.st.released
            /\ faults' = b.st.faults
            /\ lifecycle' = IF b.ok THEN "running" ELSE "panicked"
    /\ referenced' = {}
    /\ UNCHANGED <<renderer, memtype_vars, format_vars, extent_vars,
                   transfer_vars, swapchain_vars, placement_vars, shader_vars,
                   pick_vars, record_vars, upload_vars, shutdown_vars>>

\* App::destroy, after the device_wait_idle of main
AppDestroy ==
    /\ lifecycle = "running"
    /\ \E list \in {DestroySwapchainCalls(data)} :
       \E st0 \in {DestroyAll([live |-> live, released |-> released,
                               faults |-> faults], list \o DestroyCalls(data))} :
           /\ calls' = list
           /\ live' = st0.live
           /\ released' = st0.released
           /\ faults' = st0.faults
    /\ lifecycle' = "destroyed"
    /\ referenced' = {}
    /\ UNCHANGED <<data, renderer, memtype_vars, format_vars, extent_vars,
                   transfer_vars, swapchain_vars, placement_vars, shader_vars,
                   pick_vars, record_vars, upload_vars, shutdown_vars>>

SpecLifetime ==
    InitLifetime /\ [][AppCreate \/ Frame \/ Recreate \/ AppDestroy]_vars

(* Properties of the handles *)

\* the place of a handle's kind in kinds, 0 when it is not there
Rank(kinds, h) ==
    IF \E a \in DOMAIN kinds : kinds[a] = h[1]
    THEN CHOOSE a \in DOMAIN kinds : kinds[a] = h[1]
    ELSE 0

\* list releases the kinds in the order of kinds (whatever else it releases in
\* between), and has each of them
InOrder(list, kinds) ==
    /\ \A i, j \in DOMAIN list :
          (i < j /\ Rank(kinds, list[i]) > 0 /\ Rank(kinds, list[j]) > 0)
              => Rank(kinds, list[i]) <= Rank(kinds, list[j])
    /\ \A a \in DOMAIN kinds : \E i \in DOMAIN list : list[i][1] = kinds[a]

\* list releases handles of the kinds of kinds only, each of them, in that order
OnlyInOrder(list, kinds) ==
    /\ \A i \in DOMAIN list : Rank(kinds, list[i]) > 0
    /\ \A i \in 1..(Len(list) - 1) : Rank(kinds, list[i]) <= Rank(kinds, list[i + 1])
    /\ \A a \in DOMAIN kinds : \E i \in DOMAIN list : list[i][1] = kinds[a]

\* C23, as claimed: destroy_swapchain releases the swapchain image views, then
\* the framebuffers, then the render pass, then the pipeline, then the depth and
\* colour attachment images, and the swapchain last.
C23_ClaimedOrder ==
    calls # <<>> =>
        /\ InOrder(calls, <<"swapchain_image_view", "framebuffer", "render_pass",
                            "pipeline", "depth_image", "swapchain">>)
        /\ InOrder(calls, <<"pipeline", "color_image", "swapchain">>)

\* C23, amended: destroy_swapchain releases the colour attachment (view, memory,
\* image), the depth attachment (view, memory, image), the descriptor pool, the
\* uniform buffers, their memories, the framebuffers, the pipeline, the pipeline
\* layout, the render pass, the swapchain image views, and the swapchain last.
C23_ActualOrder ==
    calls # <<>> =>
        /\ OnlyInOrder(calls, <<"color_image_view", "color_image_memory",
                                "color_image", "depth_image_view",
                                "depth_image_memory", "depth_image",
                                "descriptor_pool", "uniform_buffer",
                                "uniform_buffer_memory", "framebuffer", "pipeline",
                                "pipeline_layout", "render_pass",
                                "swapchain_image_view", "swapchain">>)
        /\ calls[Len(calls)][1] = "swapchain"

\* destroy_swapchain has released the group of a swapchain of two images
C23_Witness ==
    /\ Len(calls) = 19
    /\ calls[17][1] = "swapchain_image_view"
    /\ calls[18][1] = "swapchain_image_view"
    /\ calls[19] \in released

C25_EveryHandleDestroyedOnce ==
    lifecycle = "destroyed" => live = {} /\ faults = {}

\* App::destroy has returned after a recreation, and freed a secondary command
\* buffer and a descriptor set with their pools
C25_Witness ==
    /\ lifecycle = "destroyed"
    /\ data.swapchains >= 2
    /\ \E h \in released : h[1] = "command_buffer" /\ h[2] >= 1 /\ h[3] >= 3
    /\ \E h \in released : h[1] = "descriptor_set" /\ h[2] >= 2

-----------------------------------------------------------------------------
(* The model matrix of update_secondary_command_buffer: app.rs:385-399.    *)
(* Lengths are in hundredths (2.5 is 250), angles in degrees, the elapsed  *)
(* time in whole seconds; every product and sum of the code is exact in    *)
(* f32 for these values.                                                   *)

MaxIndex == 3
MaxElapsed == 2

Translation_OneRow(model_index) == <<0, ((model_index % 2) * 250) - 125, 100>>

\* glm::vec3(0.0, y, z): app.rs:385-391
Translation(model_index) ==
    <<0, ((model_index % 2) * 250) - 125, ((model_index \div 2) * (-200)) + 100>>

\* time * radians(90.0): app.rs:396-397
Rotation(time) == time * 90

InitPlacement ==
    /\ NotCreated
    /\ MemTypeIdle
    /\ FormatIdle
    /\ ExtentIdle
    /\ TransferIdle
    /\ SwapchainIdle
    /\ LifetimeIdle
    /\ ShaderIdle
    /\ PickIdle
    /\ PlacementIdle
    /\ RecordIdle
    /\ UploadIdle
    /\ ShutdownIdle

\* update_secondary_command_buffer(image_index, model_index), the clock
\* reading `time` seconds
ComputeModelMatrix ==
    /\ \E image \in 0..(MaxImages - 1), model_index \in 0..MaxIndex,
          time \in 0..MaxElapsed :
        placement' = [image_index |-> image, model_index |-> model_index,
                      time |-> time,
                      translation |-> Translation(model_index),
                      rotation |-> Rotation(time)]
    /\ earlier' = placement
    /\ UNCHANGED <<renderer, memtype_vars, format_vars, extent_vars,
                   transfer_vars, swapchain_vars, lifetime_vars, shader_vars,
                   pick_vars, record_vars, upload_vars, shutdown_vars>>

SpecPlacement == InitPlacement /\ [][ComputeModelMatrix]_vars

\* C27: the placement of a model depends only on its index and the elapsed
\* time: the translation is (0, (i mod 2) * 2.5 - 1.25, (i div 2) * -2.0 + 1.0)
\* and the rotation the elapsed time times 90 degrees; index 0 at time 0 is at
\* (0, -1.25, 1.0) with no rotation; two evaluations with the same index and time
\* agree, whatever the image; two different indices have different translations.
C27_PlacementIsAFunction ==
    /\ placement # NoValue =>
        /\ placement.translation[1] = 0
        /\ placement.translation[2]
              = IF placement.model_index % 2 = 0 THEN -125 ELSE 125
        /\ placement.translation[3] + 200 * (placement.model_index \div 2) = 100
        /\ placement.rotation = 90 * placement.time
        /\ (placement.model_index = 0 /\ placement.time = 0) =>
              (placement.translation = <<0, -125, 100>> /\ placement.rotation = 0)
    /\ (placement # NoValue /\ earlier # NoValue) =>
        /\ (placement.model_index = earlier.model_index
              /\ placement.time = earlier.time) =>
                 /\ placement.translation = earlier.translation
                 /\ placement.rotation = earlier.rotation
        /\ placement.model_index # earlier.model_index =>
              placement.translation # earlier.translation

\* C27 witness: model 3 placed one second after model 1, each in the frame of
\* another image.
C27_Witness ==
    /\ earlier # NoValue
    /\ placement # NoValue
    /\ earlier.model_index = 1
    /\ placement.model_index = 3
    /\ earlier.image_index # placement.image_index
    /\ earlier.time = 1
    /\ placement.time = 2
    /\ placement.translation = <<0, 125, -100>>
    /\ placement.rotation = 180

-----------------------------------------------------------------------------
(* create_shader_module: main.rs:924-940 *)

MaxBytes == 8

AlignTo_NoSuffix(bytes, address) ==
    [prefix |-> <<>>,
     code |-> [k \in 1..(Len(bytes) \div 4) |-> SubSeq(bytes, 4 * k - 3, 4 * k)],
     suffix |-> <<>>]

\* bytes.align_to::<u32>() for a buffer at `address` modulo 4: the bytes before
\* the first 4-byte boundary, the whole words, the bytes left over
AlignTo(bytes, address) ==
    LET want == (4 - address) % 4
        p == IF want > Len(bytes) THEN Len(bytes) ELSE want
        n == (Len(bytes) - p) \div 4
    IN  [prefix |-> SubSeq(bytes, 1, p),
         code |-> [k \in 1..n |-> SubSeq(bytes, p + 4 * k - 3, p + 4 * k)],
         suffix |-> SubSeq(bytes, p + 4 * n + 1, Len(bytes))]

InitShader ==
    /\ NotCreated
    /\ MemTypeIdle
    /\ FormatIdle
    /\ ExtentIdle
    /\ TransferIdle
    /\ SwapchainIdle
    /\ LifetimeIdle
    /\ PlacementIdle
    /\ PickIdle
    /\ RecordIdle
    /\ UploadIdle
    /\ ShutdownIdle
    /\ bytecode \in UNION {[1..n -> {0, 255}] : n \in 0..MaxBytes}
    /\ allocation = NoValue
    /\ shader_module = NoValue
    /\ shader_modules = {}

\* create_shader_module(device, bytecode).  Vec::<u8>::from places the copy at an
\* address the allocator chooses (a Vec<u8> needs no alignment); the device call
\* succeeds or fails.
CreateShaderModule ==
    /\ shader_module = NoValue
    /\ \E address \in 0..3, result \in {"SUCCESS", "ERROR_OUT_OF_HOST_MEMORY"} :
        LET parts == AlignTo(bytecode, address)
            info == [code_size |-> Len(bytecode), code |-> parts.code]
        IN  IF parts.prefix # <<>> \/ parts.suffix # <<>>
            THEN /\ allocation' = [address |-> address, result |-> "not called"]
                 /\ shader_module' = Err("Shader bytecode is not properly aligned")
                 /\ shader_modules' = shader_modules
            ELSE /\ allocation' = [address |-> address, result |-> result]
                 /\ shader_module' =
                        IF result = "SUCCESS" THEN Ok(info) ELSE Err(result)
                 /\ shader_modules' =
                        IF result = "SUCCESS" THEN shader_modules \cup {info}
                        ELSE shader_modules
    /\ UNCHANGED <<bytecode, renderer, memtype_vars, format_vars, extent_vars,
                   transfer_vars, swapchain_vars, lifetime_vars,
                   placement_vars, pick_vars, record_vars, upload_vars,
                   shutdown_vars>>

SpecShader == InitShader /\ [][CreateShaderModule]_vars

RECURSIVE Flatten(_)
Flatten(words) ==
    IF words = <<>> THEN <<>> ELSE Head(words) \o Flatten(Tail(words))

\* C28, as claimed: create_shader_module returns an error and creates no module
\* exactly when the bytecode length is not a multiple of 4; for a multiple of 4
\* it passes the whole bytecode to the device.
C28_ErrorExactlyWhenNotMultipleOf4 ==
    shader_module # NoValue =>
        /\ shader_module[1] = "Err" <=> Len(bytecode) % 4 # 0
        /\ shader_module[1] = "Err" => shader_modules = {}
        /\ Len(bytecode) % 4 = 0 =>
              \E info \in shader_modules :
                  info.code_size = Len(bytecode) /\ Flatten(info.code) = bytecode

\* C28, amended: a bytecode whose length is not a multiple of 4 gives the
\* alignment error and no device call; a module is returned only for a length
\* that is a multiple of 4, and it was created from the whole bytecode; when the
\* length is a multiple of 4, the copy is 4-byte aligned (or empty) and the
\* device raises no error, the module is returned; every error leaves no module.
C28_ErrorWhenNotMultipleOf4 ==
    shader_module # NoValue =>
        /\ Len(bytecode) % 4 # 0 =>
              /\ shader_module = Err("Shader bytecode is not properly aligned")
              /\ allocation.result = "not called"
        /\ shader_module[1] = "Err" => shader_modules = {}
        /\ shader_module[1] = "Ok" =>
              /\ Len(bytecode) % 4 = 0
              /\ shader_module[2].code_size = Len(bytecode)
              /\ Flatten(shader_module[2].code) = bytecode
              /\ shader_modules = {shader_module[2]}
        /\ (/\ Len(bytecode) % 4 = 0
            /\ allocation.address = 0 \/ bytecode = <<>>
            /\ allocation.result # "ERROR_OUT_OF_HOST_MEMORY")
              => shader_module[1] = "Ok"

\* C28 witness: a module created from two words of bytecode
C28_Witness ==
    /\ Len(bytecode) = 8
    /\ bytecode[1] # bytecode[5]
    /\ shader_module # NoValue
    /\ shader_module[1] = "Ok"
    /\ Len(shader_module[2].code) = 2
    /\ shader_module[2] \in shader_modules

-----------------------------------------------------------------------------
(* pick_physical_device: device.rs:64-119, queuefamily.rs:13-43.  A device *)
(* is what the queries on it return: its queue families (graphics flag,    *)
(* surface support "yes", "no" or "error" when the query fails), its       *)
(* extensions, its numbers of surface formats and present modes, its       *)
(* sampler_anisotropy feature.                                             *)

MaxDevices == 2

DEVICE_EXTENSIONS == {"VK_KHR_swapchain"}

\* presentation: the first family the surface supports, None at the list's
\* end, "error" when a query fails before one is found: queuefamily.rs:25-35
RECURSIVE Presentation(_, _)
Presentation(families, index) ==
    IF index > Len(families) THEN "None"
    ELSE IF families[index].surface_support = "error" THEN "error"
    ELSE IF families[index].surface_support = "yes" THEN "Some"
    ELSE Presentation(families, index + 1)

\* QueueFamilyIndices::get: queuefamily.rs:13-43
QueueFamilyIndices_get(families) ==
    LET graphics == \E i \in 1..Len(families) : families[i].graphics
        presentation == Presentation(families, 1)
    IN  IF presentation = "error" THEN Err("ERROR_SURFACE_LOST_KHR")
        ELSE IF graphics /\ presentation = "Some" THEN Ok("indices")
        ELSE Err("Missing required queue families.")

check_physical_device_AnyFeatures(device) ==
    IF QueueFamilyIndices_get(device.queue_families)[1] = "Err"
    THEN QueueFamilyIndices_get(device.queue_families)
    ELSE IF ~(DEVICE_EXTENSIONS \subseteq device.extensions)
    THEN Err("Missing required device extensions.")
    ELSE IF device.formats = 0 \/ device.presentation_modes = 0
    THEN Err("Insufficient swapchain support.")
    ELSE Ok("suitable")

\* check_physical_device: device.rs:81-100, with check_physical_device_extensions
\* (device.rs:102-119)
check_physical_device(device) ==
    IF QueueFamilyIndices_get(device.queue_families)[1] = "Err"
    THEN QueueFamilyIndices_get(device.queue_families)
    ELSE IF ~(DEVICE_EXTENSIONS \subseteq device.extensions)
    THEN Err("Missing required device extensions.")
    ELSE IF device.formats = 0 \/ device.presentation_modes = 0
    THEN Err("Insufficient swapchain support.")
    ELSE IF ~device.sampler_anisotropy
    THEN Err("No sampler anisotropy.")
    ELSE Ok("suitable")

\* the loop of pick_physical_device from device number k: device.rs:65-79
RECURSIVE pick_physical_device(_, _)
pick_physical_device(devices, k) ==
    IF k > Len(devices) THEN Err("Failed to find suitable physical device.")
    ELSE IF check_physical_device(devices[k])[1] = "Err"
    THEN pick_physical_device(devices, k + 1)
    ELSE Ok(k)

InitPick ==
    /\ NotCreated
    /\ MemTypeIdle
    /\ FormatIdle
    /\ ExtentIdle
    /\ TransferIdle
    /\ SwapchainIdle
    /\ LifetimeIdle
    /\ PlacementIdle
    /\ ShaderIdle
    /\ RecordIdle
    /\ UploadIdle
    /\ ShutdownIdle
    /\ physical_devices \in UNION {[1..n ->
          [queue_families :
              { <<[graphics |-> TRUE, surface_support |-> "yes"]>>,
                <<[graphics |-> TRUE, surface_support |-> "no"],
                  [graphics |-> FALSE, surface_support |-> "yes"]>>,
                <<[graphics |-> TRUE, surface_support |-> "no"]>>,
                <<[graphics |-> FALSE, surface_support |-> "yes"]>>,
                <<[graphics |-> FALSE, surface_support |-> "error"],
                  [graphics |-> TRUE, surface_support |-> "yes"]>> },
           extensions : {{}, {"VK_KHR_swapchain", "VK_KHR_maintenance1"}},
           formats : 0..1,
           presentation_modes : 0..1,
           sampler_anisotropy : BOOLEAN]] : n \in 0..MaxDevices}
    /\ physical_device = NoValue

\* pick_physical_device(instance, data); enumerate_physical_devices can fail
PickPhysicalDevice ==
    /\ physical_device = NoValue
    /\ \E enumerated \in BOOLEAN :
        physical_device' =
            IF enumerated THEN pick_physical_device(physical_devices, 1)
            ELSE Err("ERROR_INITIALIZATION_FAILED")
    /\ UNCHANGED <<physical_devices, renderer, memtype_vars, format_vars,
                   extent_vars, transfer_vars, swapchain_vars, lifetime_vars,
                   placement_vars, shader_vars, record_vars, upload_vars,
                   shutdown_vars>>

SpecPick == InitPick /\ [][PickPhysicalDevice]_vars

\* device d has a graphics family and a family the surface supports (found
\* before any failing query), every required extension, a surface format, a
\* present mode, and sampler anisotropy
Passes(d) ==
    /\ \E i \in DOMAIN d.queue_families : d.queue_families[i].graphics
    /\ \E i \in DOMAIN d.queue_families :
          /\ d.queue_families[i].surface_support = "yes"
          /\ \A j \in 1..(i - 1) : d.queue_families[j].surface_support = "no"
    /\ "VK_KHR_swapchain" \in d.extensions
    /\ d.formats >= 1
    /\ d.presentation_modes >= 1
    /\ d.sampler_anisotropy

\* C29: pick_physical_device selects the first enumerated device that passes
\* every check, never a device that fails one, and returns an error when no
\* device passes.
C29_FirstSuitableDevice ==
    physical_device # NoValue =>
        /\ physical_device[1] = "Ok" =>
              /\ physical_device[2] \in DOMAIN physical_devices
              /\ Passes(physical_devices[physical_device[2]])
              /\ \A j \in 1..(physical_device[2] - 1) : ~Passes(physical_devices[j])
        /\ (\A j \in DOMAIN physical_devices : ~Passes(physical_devices[j]))
              => physical_device[1] = "Err"
        /\ physical_device = Err("Failed to find suitable physical device.")
              => \A j \in DOMAIN physical_devices : ~Passes(physical_devices[j])

\* C29 witness: the first device lacks sampler anisotropy only, the second
\* passes with separate graphics and presentation families and is selected
C29_Witness ==
    /\ physical_device = Ok(2)
    /\ Len(physical_devices[2].queue_families) = 2
    /\ ~physical_devices[1].sampler_anisotropy
    /\ Passes([physical_devices[1] EXCEPT !.sampler_anisotropy = TRUE])

\* the kinds of buffers and images that have device memory of their own
BoundKinds == {"color_image", "depth_image", "texture_image", "uniform_buffer",
               "vertex_buffer", "index_buffer"}

\* the device memory bound to a buffer or an image
MemoryOf(h) == <<h[1] \o "_memory", h[2], h[3]>>

\* the destroy calls of the teardown that ran last: those of destroy_swapchain,
\* followed in App::destroy by its own
Teardown == calls \o (IF lifecycle = "destroyed" THEN DestroyCalls(data) ELSE <<>>)

\* C40: in destroy_swapchain and in App::destroy every buffer and every image is
\* destroyed before the memory bound to it is freed: the colour image, the depth
\* image, the texture image, the uniform buffers, the vertex and the index buffer.
C40_ResourceBeforeMemory ==
    \A i, j \in DOMAIN Teardown :
        (Teardown[i][1] \in BoundKinds /\ Teardown[j] = MemoryOf(Teardown[i])) => i < j

\* the kinds of handles destroy_swapchain destroys and recreate_swapchain builds
\* anew that a frame's commands refer to
RebuiltKinds == {"render_pass", "pipeline", "pipeline_layout", "framebuffer",
                 "descriptor_set", "uniform_buffer_memory"}

\* C37: the commands of a submitted frame refer to live handles only, none that
\* was ever destroyed, and their render pass, pipeline, pipeline layout,
\* framebuffer, descriptor set and uniform memory are those of the swapchain
\* group built last.
C37_NoUseAfterDestroy ==
    /\ referenced \subseteq live
    /\ referenced \cap released = {}
    /\ \A h \in referenced : h[1] \in RebuiltKinds => h[2] = data.swapchains
    /\ referenced # {} => \A kind \in RebuiltKinds : \E h \in referenced : h[1] = kind

\* C37 witness: a frame is submitted on the second image of a swapchain group
\* built by the second recreation, the earlier groups destroyed.
C37_Witness ==
    /\ lifecycle = "running"
    /\ data.swapchains = 3
    /\ <<"framebuffer", 3, 2>> \in referenced
    /\ <<"descriptor_set", 3, 2>> \in referenced
    /\ <<"framebuffer", 1, 1>> \in released
    /\ <<"descriptor_set", 2, 1>> \in released

-----------------------------------------------------------------------------
(* The commands update_command_buffer records: app.rs:312-471.  A secondary  *)
(* command buffer is named by the number of the allocation that made it; a  *)
(* device call is its name, then the handle it is made on, then its          *)
(* arguments.                                                                *)

\* allocate_command_buffers calls explored in one run
MaxAllocations == 5

\* the primary command buffer of an image: command_buffers[image_index]
Primary(image) == <<"primary", image>>

\* the secondary command buffers of an image, none if the Vec is too short
ListOf(lists, image) == IF image + 1 <= Len(lists) THEN lists[image + 1] ELSE <<>>

\* update_secondary_command_buffer(image, model): app.rs:369-381, the list after
\* resize_with(image + 1) and the allocations the model index asks for.  The new
\* buffers are numbered from `next` on.
SecondaryList(lists, image, model, next) ==
    LET r == [j \in 1..(image + 1) |-> IF j <= Len(lists) THEN lists[j] ELSE <<>>]
        missing == IF model >= Len(r[image + 1]) THEN model + 1 - Len(r[image + 1]) ELSE 0
    IN  [r EXCEPT ![image + 1] = @ \o [k \in 1..missing |-> <<"secondary", next + k>>]]

\* (0..models).map(update_secondary_command_buffer): app.rs:353-355, the lists
\* after the first n models
RECURSIVE SecondaryLists(_, _, _, _)
SecondaryLists(lists, image, n, next) ==
    IF n = 0 THEN lists
    ELSE LET before == SecondaryLists(lists, image, n - 1, next)
             made == Len(ListOf(before, image)) - Len(ListOf(lists, image))
         IN  SecondaryList(before, image, n - 1, next + made)

\* the device calls of update_secondary_command_buffer on buffer b: app.rs:412-468
SecondaryCommands(b, image) ==
    << <<"begin_command_buffer", b, "RENDER_PASS_CONTINUE">>,
       <<"cmd_bind_pipeline", b>>, <<"cmd_bind_vertex_buffers", b>>,
       <<"cmd_bind_index_buffer", b>>, <<"cmd_bind_descriptor_sets", b, image>>,
       <<"cmd_push_constants", b, "VERTEX">>, <<"cmd_push_constants", b, "FRAGMENT">>,
       <<"cmd_draw_indexed", b>>, <<"end_command_buffer", b>> >>

RECURSIVE Concat(_)
Concat(seqs) == IF seqs = <<>> THEN <<>> ELSE Head(seqs) \o Concat(Tail(seqs))

\* faulty variant: every buffer of the image's list is executed
Executed_WholeList(list, n) == list

\* what collect() hands to cmd_execute_commands: the buffers the closure returned
\* for 0..models, in that order
Executed(list, n) == [k \in 1..n |-> list[k]]

\* update_command_buffer(image) with `count` models on the list `list` of the
\* image, recording of model `failed` failing (0: none fails): app.rs:312-362
UpdateCommandBufferCommands(list, image, count, failed) ==
    LET done == IF failed = 0 THEN count ELSE failed
    IN  << <<"reset_command_pool", <<"command_pool", image>>>>,
           <<"begin_command_buffer", Primary(image), "ONE_TIME_SUBMIT">>,
           <<"cmd_begin_render_pass", Primary(image), "SECONDARY_COMMAND_BUFFERS">> >>
        \o Concat([k \in 1..done |->
                      IF k = failed
                      THEN SubSeq(SecondaryCommands(list[k], image), 1, 8)
                           \o << <<"end_command_buffer:ERROR", list[k]>> >>
                      ELSE SecondaryCommands(list[k], image)])
        \o (IF failed = 0
            THEN << <<"cmd_execute_commands", Primary(image), Executed(list, count)>>,
                    <<"cmd_end_render_pass", Primary(image)>>,
                    <<"end_command_buffer", Primary(image)>> >>
            ELSE <<>>)

\* create_command_buffers has run for every image: commandbuffer.rs:90
InitRecord ==
    /\ NotCreated
    /\ MemTypeIdle
    /\ FormatIdle
    /\ ExtentIdle
    /\ TransferIdle
    /\ SwapchainIdle
    /\ LifetimeIdle
    /\ PlacementIdle
    /\ ShaderIdle
    /\ PickIdle
    /\ UploadIdle
    /\ ShutdownIdle
    /\ secondary_buffers = [i \in 1..MaxImages |-> <<>>]
    /\ allocations = 0
    /\ device_commands = <<>>
    /\ recording = NoValue

\* one call of update_command_buffer, the App having `count` models
UpdateCommandBufferCall ==
    /\ \E image \in 0..(MaxImages - 1), count \in 1..MaxModels, fails \in BOOLEAN :
        \E failed \in (IF fails THEN 1..count ELSE {0}) :
        \E lists \in {SecondaryLists(secondary_buffers, image,
                                      IF failed = 0 THEN count ELSE failed,
                                      allocations)} :
        \E made \in {Len(lists[image + 1]) - Len(ListOf(secondary_buffers, image))} :
            /\ allocations + made <= MaxAllocations
            /\ secondary_buffers' = lists
            /\ allocations' = allocations + made
            /\ device_commands' =
                  UpdateCommandBufferCommands(lists[image + 1], image, count, failed)
            /\ recording' = [image_index |-> image, models |-> count,
                             result |-> IF failed = 0 THEN "Ok" ELSE "Err"]
    /\ UNCHANGED <<renderer, memtype_vars, format_vars, extent_vars,
                   transfer_vars, swapchain_vars, lifetime_vars,
                   placement_vars, shader_vars, pick_vars, upload_vars,
                   shutdown_vars>>

SpecRecord == InitRecord /\ [][UpdateCommandBufferCall]_vars

\* the positions of the calls `name` on command buffer b in the last recording
Calls(name, b) ==
    {k \in DOMAIN device_commands :
        device_commands[k][1] = name /\ device_commands[k][2] = b}

\* C33: a call of update_command_buffer for image i with n models that returns Ok
\* begins and ends each of the first n secondary buffers of the image once, and
\* no other, all before its one cmd_execute_commands; that call executes exactly
\* those n buffers in index order, after cmd_begin_render_pass and before
\* cmd_end_render_pass on the primary buffer of the image; a buffer of index n or
\* higher, left from a call with more models, is neither recorded nor executed.
C33_ExecutesModelCountInOrder ==
    (recording # NoValue /\ recording.result = "Ok") =>
        LET image == recording.image_index
            n == recording.models
            list == secondary_buffers[image + 1]
            execute == Calls("cmd_execute_commands", Primary(image))
        IN  /\ Len(list) >= n
            /\ \A j, k \in DOMAIN list : list[j] = list[k] => j = k
            /\ Cardinality(execute) = 1
            /\ \A x \in execute :
                  /\ device_commands[x][3] = [k \in 1..n |-> list[k]]
                  /\ \E b \in Calls("cmd_begin_render_pass", Primary(image)) : b < x
                  /\ \E e \in Calls("cmd_end_render_pass", Primary(image)) : x < e
                  /\ \A k \in 1..n :
                        /\ Cardinality(Calls("begin_command_buffer", list[k])) = 1
                        /\ Cardinality(Calls("end_command_buffer", list[k])) = 1
                        /\ \A b \in Calls("begin_command_buffer", list[k]),
                              e \in Calls("end_command_buffer", list[k]) : b < e /\ e < x
            /\ \A c \in DOMAIN device_commands :
                  device_commands[c][2][1] = "secondary" =>
                      \E k \in 1..n : device_commands[c][2] = list[k]

\* C33 witness: three models are recorded on an image whose list holds four
\* buffers, left from a call with four models.
C33_Witness ==
    /\ recording # NoValue
    /\ recording.result = "Ok"
    /\ recording.models = 3
    /\ Len(secondary_buffers[recording.image_index + 1]) = 4

-----------------------------------------------------------------------------
(* The uploads through a staging buffer: create_vertex_buffer               *)
(* (main.rs:1142-1187), create_index_buffer (main.rs:1189-1233) and         *)
(* create_texture_image (texture.rs:23-114).  Their one-shot transfers are  *)
(* the actions of SpecTransfer from AllocateCommandBuffers on.              *)

\* upload functions called in one run
MaxUploads == 2

Uploaders == {"create_vertex_buffer", "create_index_buffer", "create_texture_image"}

\* the buffer and the memory create_buffer makes for the k-th upload
BufferOf(name, k) == <<name, k>>

BufferMemoryOf(name, k) == <<name \o "_memory", k>>

Staging(k) == {BufferOf("staging_buffer", k), BufferMemoryOf("staging_buffer", k)}

\* what an upload function fills: the second create_buffer, or create_image
Destination(u) ==
    CASE u = "create_vertex_buffer" -> "vertex_buffer"
      [] u = "create_index_buffer" -> "index_buffer"
      [] u = "create_texture_image" -> "texture_image"

\* the calls of create_buffer that can fail, in order: buffers.rs:20-34
CreateBufferCalls ==
    <<"create_buffer", "get_memory_type_index", "allocate_memory", "bind_buffer_memory">>

\* create_buffer, its call number `failing` failing (0: none does): the objects
\* live when it returns, and what it returns.  Each `?` returns at once; nothing
\* is destroyed on the way out.  buffers.rs:7-37
create_buffer(objects, name, k, failing) ==
    LET made(call) == failing = 0 \/ failing > call
    IN  [objects |-> objects
                     \cup (IF made(1) THEN {BufferOf(name, k)} ELSE {})
                     \cup (IF made(3) THEN {BufferMemoryOf(name, k)} ELSE {}),
         result |-> IF failing = 0
                    THEN Ok(<<BufferOf(name, k), BufferMemoryOf(name, k)>>)
                    ELSE Err(CreateBufferCalls[failing])]

InitUpload ==
    /\ NotCreated
    /\ MemTypeIdle
    /\ FormatIdle
    /\ ExtentIdle
    /\ TransferIdle
    /\ SwapchainIdle
    /\ LifetimeIdle
    /\ PlacementIdle
    /\ ShaderIdle
    /\ PickIdle
    /\ RecordIdle
    /\ UploadIdle
    /\ ShutdownIdle

\* an upload function is called and creates its staging buffer:
\* main.rs:1149-1156, main.rs:1196-1203, texture.rs:41-48
UploadStaging ==
    /\ upload_pc = "idle"
    /\ transfer_pc = "idle"
    /\ uploads < MaxUploads
    /\ \E u \in Uploaders, failing \in 0..Len(CreateBufferCalls) :
        \E c \in {create_buffer(device_objects, "staging_buffer", uploads + 1, failing)} :
            /\ uploader' = u
            /\ device_objects' = c.objects
            /\ last_create' = [before |-> device_objects, result |-> c.result]
            /\ upload_pc' = IF c.result[1] = "Ok" THEN "create_destination" ELSE "failed"
    /\ uploads' = uploads + 1
    /\ UNCHANGED <<renderer, memtype_vars, format_vars, extent_vars,
                   swapchain_vars, lifetime_vars, placement_vars, shader_vars,
                   pick_vars, record_vars, shutdown_vars, transfer_vars>>

\* the staging memory is filled (map_memory can fail) and the destination is
\* created: main.rs:1158-1179, main.rs:1205-1226, texture.rs:50-78.  What a
\* failing create_image leaves behind is not followed.
UploadDestination ==
    /\ upload_pc = "create_destination"
    /\ \/ /\ upload_pc' = "failed"
          /\ UNCHANGED <<device_objects, last_create>>
       \/ /\ uploader # "create_texture_image"
          /\ \E failing \in 0..Len(CreateBufferCalls) :
              \E c \in {create_buffer(device_objects, Destination(uploader),
                                      uploads, failing)} :
                  /\ device_objects' = c.objects
                  /\ last_create' = [before |-> device_objects, result |-> c.result]
                  /\ upload_pc' = IF c.result[1] = "Ok" THEN "copy" ELSE "failed"
       \/ /\ uploader = "create_texture_image"
          /\ device_objects' = device_objects
                \cup {BufferOf(Destination(uploader), uploads),
                      BufferMemoryOf(Destination(uploader), uploads)}
          /\ upload_pc' = "transition_image_layout"
          /\ UNCHANGED last_create
    /\ UNCHANGED <<renderer, memtype_vars, format_vars, extent_vars,
                   swapchain_vars, lifetime_vars, placement_vars, shader_vars,
                   pick_vars, record_vars, shutdown_vars, transfer_vars,
                   uploader, uploads>>

\* the upload function calls transition_image_layout (texture.rs:80-88), or the
\* copy out of the staging buffer: copy_buffer (main.rs:1181, main.rs:1228) or
\* copy_buffer_to_image (texture.rs:90-97)
UploadCall ==
    /\ upload_pc \in {"transition_image_layout", "copy"}
    /\ transfer_pc = "idle"
    /\ operation' =
          IF upload_pc = "transition_image_layout"
          THEN [name |-> "transition_image_layout", old_layout |-> "UNDEFINED",
                new_layout |-> "TRANSFER_DST_OPTIMAL"]
          ELSE [name |-> IF uploader = "create_texture_image"
                         THEN "copy_buffer_to_image" ELSE "copy_buffer"]
    /\ transfer_pc' = IF upload_pc = "transition_image_layout"
                      THEN "match_layouts" ELSE "allocate_command_buffers"
    /\ command_buffer' = "none"
    /\ device_calls' = <<>>
    /\ transfer_result' = NoValue
    /\ upload_pc' = IF upload_pc = "copy" THEN "copying" ELSE "transitioning"
    /\ UNCHANGED <<renderer, memtype_vars, format_vars, extent_vars,
                   swapchain_vars, lifetime_vars, placement_vars, shader_vars,
                   pick_vars, record_vars, shutdown_vars,
                   graphics_queue, transfers, executed,
                   uploader, device_objects, uploads, last_create>>

\* the one-shot operation returned to the upload function: `?` on an error;
\* after the transition, the copy; after the copy, destroy_buffer and free_memory
\* of the staging buffer (main.rs:1182-1183, main.rs:1229-1230, texture.rs:99-100).
\* The mipmaps create_texture_image goes on to generate are not followed.
UploadReturn ==
    /\ upload_pc \in {"transitioning", "copying"}
    /\ transfer_pc \in {"idle", "failed"}
    /\ transfer_result # NoValue
    /\ IF transfer_result[1] = "Err"
       THEN /\ upload_pc' = "failed"
            /\ UNCHANGED device_objects
       ELSE IF upload_pc = "transitioning"
       THEN /\ upload_pc' = "copy"
            /\ UNCHANGED device_objects
       ELSE /\ upload_pc' = "idle"
            /\ device_objects' = device_objects \ Staging(uploads)
    /\ UNCHANGED <<renderer, memtype_vars, format_vars, extent_vars,
                   swapchain_vars, lifetime_vars, placement_vars, shader_vars,
                   pick_vars, record_vars, shutdown_vars, transfer_vars,
                   uploader, uploads, last_create>>

SpecUpload ==
    InitUpload
    /\ [][UploadStaging \/ UploadDestination \/ UploadCall \/ UploadReturn
          \/ MatchLayouts \/ AllocateCommandBuffers \/ BeginCommandBuffer
          \/ RecordCommand \/ EndCommandBuffer \/ SubmitTransfer
          \/ ExecuteTransfer \/ QueueWaitIdle \/ FreeCommandBuffers]_vars

\* the commands that read the staging buffer
CopyCommands == {"cmd_copy_buffer", "cmd_copy_buffer_to_image"}

\* C34: while a copy out of a staging buffer is submitted and not yet executed by
\* the GPU, the staging buffer and its memory are live; they are destroyed only
\* by an upload whose copy returned Ok, after queue_wait_idle, with the queue
\* empty.
C34_StagingOutlivesCopy ==
    /\ \A k \in DOMAIN graphics_queue :
          graphics_queue[k] \in CopyCommands => Staging(uploads) \subseteq device_objects
    /\ (uploads > 0 /\ Staging(uploads) \cap device_objects = {}
          /\ last_create.result[1] = "Ok") =>
          /\ upload_pc = "idle"
          /\ HasAny(device_calls, CopyCommands)
          /\ Has(device_calls, "queue_wait_idle")
          /\ graphics_queue = <<>>

\* C34 witness: the texture upload, second of two uploads, has destroyed its
\* staging buffer after the GPU executed its transition and its copy.
C34_Witness ==
    /\ uploads = 2
    /\ uploader = "create_texture_image"
    /\ upload_pc = "idle"
    /\ Staging(2) \cap device_objects = {}
    /\ BufferOf("texture_image", 2) \in device_objects
    /\ Has(device_calls, "cmd_copy_buffer_to_image")
    /\ executed = 3

\* C38: a create_buffer call that returns an error leaves the set of live
\* buffers and memory as it was before the call.
C38_FailedCreateLeavesNothing ==
    (last_create # NoValue /\ last_create.result[1] = "Err") =>
        device_objects = last_create.before

-----------------------------------------------------------------------------
(* The closure main hands to event_loop.run: main.rs:88-119.  The event     *)
(* loop calls it once per event.  ControlFlow::Exit is sticky: the loop     *)
(* keeps it whatever the closure assigns later, hands the closure the       *)
(* events it still holds, and stops.  Which events those are is the         *)
(* windowing system's choice.                                               *)

\* events handled in one run
MaxEvents == 5

\* `*control_flow = ControlFlow::Poll` at the top of the closure: main.rs:91
Polled(flow) == IF flow = "Exit" THEN "Exit" ELSE "Poll"

\* main.rs:78-79: the App is created, `destroying` is false
InitShutdown ==
    /\ NotCreated
    /\ MemTypeIdle
    /\ FormatIdle
    /\ ExtentIdle
    /\ TransferIdle
    /\ SwapchainIdle
    /\ LifetimeIdle
    /\ PlacementIdle
    /\ ShaderIdle
    /\ PickIdle
    /\ RecordIdle
    /\ UploadIdle
    /\ destroying = FALSE
    /\ control_flow = "Poll"
    /\ app_calls = <<>>
    /\ handled = 0
    /\ loop = "running"

\* Event::MainEventsCleared if !destroying: main.rs:95-96.  With `destroying`
\* set the guard fails and the event falls to `_ => {}`.  An Err from render
\* panics in unwrap.
OnMainEventsCleared ==
    /\ loop = "running"
    /\ handled < MaxEvents
    /\ handled' = handled + 1
    /\ control_flow' = Polled(control_flow)
    /\ IF destroying
       THEN UNCHANGED <<app_calls, loop>>
       ELSE /\ app_calls' = Append(app_calls, "render")
            /\ \E result \in {"Ok", "Err"} :
                  loop' = IF result = "Ok" THEN loop ELSE "panicked"
    /\ UNCHANGED <<destroying, renderer, memtype_vars, format_vars, extent_vars,
                   transfer_vars, swapchain_vars, lifetime_vars, placement_vars,
                   shader_vars, pick_vars, record_vars, upload_vars>>

\* WindowEvent::Resized: main.rs:98-105
OnResized ==
    /\ loop = "running"
    /\ handled < MaxEvents
    /\ handled' = handled + 1
    /\ control_flow' = Polled(control_flow)
    /\ \E zero \in BOOLEAN :
          app_calls' = IF zero THEN app_calls ELSE Append(app_calls, "resized = true")
    /\ UNCHANGED <<destroying, loop, renderer, memtype_vars, format_vars, extent_vars,
                   transfer_vars, swapchain_vars, lifetime_vars, placement_vars,
                   shader_vars, pick_vars, record_vars, upload_vars>>

\* WindowEvent::CloseRequested: main.rs:110-115.  The arm has no guard.  A
\* failing device_wait_idle panics in unwrap, before destroy.
OnCloseRequested ==
    /\ loop = "running"
    /\ handled < MaxEvents
    /\ handled' = handled + 1
    /\ destroying' = TRUE
    /\ control_flow' = "Exit"
    /\ \E result \in {"Ok", "Err"} :
          IF result = "Ok"
          THEN /\ app_calls' = app_calls \o <<"device_wait_idle", "destroy">>
               /\ loop' = loop
          ELSE /\ app_calls' = Append(app_calls, "device_wait_idle:ERROR")
               /\ loop' = "panicked"
    /\ UNCHANGED <<renderer, memtype_vars, format_vars, extent_vars,
                   transfer_vars, swapchain_vars, lifetime_vars, placement_vars,
                   shader_vars, pick_vars, record_vars, upload_vars>>

\* `_ => {}`: main.rs:116
OnOtherEvent ==
    /\ loop = "running"
    /\ handled < MaxEvents
    /\ handled' = handled + 1
    /\ control_flow' = Polled(control_flow)
    /\ UNCHANGED <<destroying, app_calls, loop, renderer, memtype_vars, format_vars, extent_vars,
                   transfer_vars, swapchain_vars, lifetime_vars, placement_vars,
                   shader_vars, pick_vars, record_vars, upload_vars>>

\* the event loop finds ControlFlow::Exit and stops
LoopExits ==
    /\ loop = "running"
    /\ control_flow = "Exit"
    /\ loop' = "exited"
    /\ UNCHANGED <<destroying, control_flow, app_calls, handled, renderer, memtype_vars, format_vars, extent_vars,
                   transfer_vars, swapchain_vars, lifetime_vars, placement_vars,
                   shader_vars, pick_vars, record_vars, upload_vars>>

SpecShutdown ==
    InitShutdown
    /\ [][OnMainEventsCleared \/ OnResized \/ OnCloseRequested \/ OnOtherEvent
          \/ LoopExits]_vars

\* the calls that use the handles App::destroy destroys
UsesHandles == {"render", "device_wait_idle", "device_wait_idle:ERROR", "destroy"}

\* C39: App::destroy is called only directly after a device_wait_idle that
\* returned in the same handler, and after it no handler calls render,
\* device_wait_idle or destroy again.
C39_DestroyOnceAfterIdle ==
    \A k \in DOMAIN app_calls :
        app_calls[k] = "destroy" =>
            /\ k > 1
            /\ app_calls[k - 1] = "device_wait_idle"
            /\ \A j \in (k + 1)..Len(app_calls) : app_calls[j] \notin UsesHandles

====
